---- MODULE Spec2Model ----
(***************************************************************************)
(* Verification model of the pixel-analysis core of snaplab:               *)
(*   - floodFill and filterLargestComponent (src/services/                 *)
(*     imageProcessing.ts),                                                *)
(*   - detectSeamsLocal / detectAxis (src/services/localSplitService.ts).  *)
(* Each function has its own specification (SpecFlood, SpecCC, SpecSeam)   *)
(* over the shared variables below; the variables a specification does not *)
(* use stay at their idle values.                                          *)
(***************************************************************************)
EXTENDS Integers, Sequences, FiniteSets, TLC

VARIABLES
    pc,         \* position of the running function
    width,      \* canvas / mask / image width
    height,     \* canvas / mask / image height
    \* ---- floodFill ----
    canvas,     \* the pixels held by ctx (RGBA bytes, row-major)
    data,       \* imageData.data: the copy floodFill works on
    stack,      \* the traversal stack of [x, y] pairs
    visited,    \* the visited set (coordinate keys)
    start,      \* [x, y, R, G, B, A, tol]: seed and the seed colour captured
    calls,      \* number of floodFill calls that have returned
    putCount,   \* number of ctx.putImageData calls made
    \* ---- filterLargestComponent ----
    maskData,       \* the input mask (one score per pixel)
    labels,         \* component id of each pixel, 0 = background
    currentLabel,   \* the next component id
    componentSizes, \* component id -> pixel count
    queue,          \* the breadth-first queue of the component being labelled
    head,           \* index of the next queue entry to process
    count,          \* pixels counted in the component being labelled
    scan,           \* raster position of the outer loops (y * width + x)
    maxLabel,       \* id of the largest component, -1 until one is found
    newMask,        \* the returned mask, <<>> until it is built
    \* ---- detectSeamsLocal / detectAxis (the image is width, height, data) ----
    imageSrc,       \* the picture the caller passes, as a description of it
    isHorizontal,   \* the direction of the running detectAxis call
    variances,      \* per-line variance
    gaps,           \* gap candidates
    scores,         \* per-line gradient score
    smoothedScores, \* smoothed gradient score
    edges,          \* edge candidates
    rowSplits,      \* result of the HORIZONTAL call
    colSplits,      \* result of the VERTICAL call
    \* ---- React state of useImageHistory / ImageEditor ----
    history,        \* the history array as of the last render
    currentStep,    \* the current position (0-based) as of the last render
    mode,           \* the edit mode
    isLoading,      \* the loading flag
    loadingText,    \* the loading text
    updates,        \* state updates enqueued since the last render, in order
    batch,          \* the handler calls made since the last render
    inflight        \* the handleAutoRemoveBg calls started, with what they captured

floodVars == <<canvas, stack, start, calls, putCount>>
ccVars == <<maskData, labels, currentLabel, componentSizes, queue, head, count,
            scan, maxLabel, newMask>>
axisVars == <<isHorizontal, variances, gaps, scores, smoothedScores, edges>>
seamVars == <<imageSrc, axisVars, rowSplits, colSplits>>
editorVars == <<history, currentStep, mode, isLoading, loadingText, updates, batch, inflight>>
vars == <<pc, width, height, visited, data, floodVars, ccVars, seamVars, editorVars>>

(***************************************************************************)
(* Bounds of the model.                                                    *)
(***************************************************************************)
MaxCells == 4       \* floodFill: canvases of at most this many pixels
MaxCalls == 2       \* floodFill: calls made on one canvas
MaxArgCells == 4    \* filterLargestComponent: arrays passed with any dimensions
MaxMaskCells == 5   \* filterLargestComponent: masks of at most this many pixels
MaxSeamCells == 6   \* detectSeamsLocal: small pictures of at most this many pixels
MaxJumps == 2       \* detectSeamsLocal: colour steps along a strip picture
AxisLen == 160      \* detectSeamsLocal: length of a strip picture
CrossLen == 5       \* detectSeamsLocal: breadth of a strip picture
LongLen == 800      \* detectSeamsLocal: length of the long strip picture
MaxRuns == 3        \* seams: flat runs in one strip
MaxBands == 3       \* detectSeamsLocal: blocks of a small grid picture
MaxHistory == 3     \* editor: entries a history array grows to
MaxBatch == 2       \* useImageHistory: calls made before a re-render
MaxOps == 2         \* editor: handleAutoRemoveBg calls started

Abs(n) == IF n < 0 THEN -n ELSE n

(***************************************************************************)
(* floodFill                                                               *)
(***************************************************************************)

\* Pixels the canvases are built from: <<R, G, B, A>>.  With tolerance 2 the
\* second differs from the first by exactly the tolerance in R, the third
\* by one more than the tolerance in B; the fourth is fully transparent.
Palette == { <<10, 10, 10, 255>>, <<12, 10, 10, 255>>,
             <<10, 10, 13, 128>>, <<10, 10, 10, 0>> }
Tolerances == {0, 2}

Dims(n) == { wh \in (1..n) \X (1..n) : wh[1] * wh[2] <= n }

\* The RGBA byte array of a grid of pixels.
Flatten(p, n) == [i \in 0..(4 * n - 1) |-> p[i \div 4][(i % 4) + 1]]

getPixelIndex(x, y, w) == (y * w + x) * 4

colorMatchStrict(d, idx, s) ==
    /\ d[idx + 3] # 0
    /\ Abs(d[idx] - s.R) < s.tol
    /\ Abs(d[idx + 1] - s.G) < s.tol
    /\ Abs(d[idx + 2] - s.B) < s.tol
colorMatch(d, idx, s) ==
    /\ d[idx + 3] # 0
    /\ Abs(d[idx] - s.R) <= s.tol
    /\ Abs(d[idx + 1] - s.G) <= s.tol
    /\ Abs(d[idx + 2] - s.B) <= s.tol

\* The four conditional pushes, in the order of the code.
pushNeighborsNoUp(st, x, y, w, h) ==
    LET s1 == IF x > 0 THEN Append(st, <<x - 1, y>>) ELSE st
        s2 == IF x < w - 1 THEN Append(s1, <<x + 1, y>>) ELSE s1
    IN  IF y < h - 1 THEN Append(s2, <<x, y + 1>>) ELSE s2
pushNeighbors(st, x, y, w, h) ==
    LET s1 == IF x > 0 THEN Append(st, <<x - 1, y>>) ELSE st
        s2 == IF x < w - 1 THEN Append(s1, <<x + 1, y>>) ELSE s1
        s3 == IF y > 0 THEN Append(s2, <<x, y - 1>>) ELSE s2
    IN  IF y < h - 1 THEN Append(s3, <<x, y + 1>>) ELSE s3

\* The write of a matched pixel: alpha only.
eraseZeroRgb(d, idx) == [d EXCEPT ![idx] = 0, ![idx + 1] = 0, ![idx + 2] = 0, ![idx + 3] = 0]
erase(d, idx) == [d EXCEPT ![idx + 3] = 0]

\* visited.add(key)
markVisitedNever(v, key) == v
markVisited(v, key) == v \cup {key}

\* `if (startA === 0) return;`
seedIsTransparentNever(a) == FALSE
seedIsTransparent(a) == a = 0

\* The values of the variables of a function that is not running.
FloodIdle ==
    /\ canvas = <<>>
    /\ stack = <<>>
    /\ start = [x |-> 0, y |-> 0, R |-> 0, G |-> 0, B |-> 0, A |-> 0, tol |-> 0]
    /\ calls = 0
    /\ putCount = 0
CCIdle ==
    /\ maskData = <<>>
    /\ labels = <<>>
    /\ currentLabel = 1
    /\ componentSizes = <<>>
    /\ queue = <<>>
    /\ head = 0
    /\ count = 0
    /\ scan = 0
    /\ maxLabel = -1
    /\ newMask = <<>>
NoText == "null"
NoMode == "null"
EditorIdle ==
    /\ history = <<>>
    /\ currentStep = 0
    /\ mode = NoMode
    /\ isLoading = FALSE
    /\ loadingText = NoText
    /\ updates = <<>>
    /\ batch = <<>>
    /\ inflight = <<>>
SeamIdle ==
    /\ imageSrc = <<>>
    /\ isHorizontal = TRUE
    /\ variances = <<>>
    /\ gaps = <<>>
    /\ scores = <<>>
    /\ smoothedScores = <<>>
    /\ edges = <<>>
    /\ rowSplits = <<>>
    /\ colSplits = <<>>

InitFlood ==
    /\ pc = "idle"
    /\ EditorIdle
    /\ CCIdle
    /\ SeamIdle
    /\ \E wh \in Dims(MaxCells) :
          /\ width = wh[1]
          /\ height = wh[2]
          /\ \E p \in [0..(wh[1] * wh[2] - 1) -> Palette] :
                canvas = Flatten(p, wh[1] * wh[2])
    /\ data = canvas
    /\ stack = <<>>
    /\ visited = {}
    /\ start = [x |-> 0, y |-> 0, R |-> 0, G |-> 0, B |-> 0, A |-> 0, tol |-> 0]
    /\ calls = 0
    /\ putCount = 0

\* The arguments of a call: any in-bounds seed and tolerance for the first
\* call, the same seed and tolerance again for the calls after it.
FloodArgs(x, y, tol) ==
    /\ x \in 0..(width - 1)
    /\ y \in 0..(height - 1)
    /\ tol \in Tolerances
    /\ calls > 0 => (x = start.x /\ y = start.y /\ tol = start.tol)

Captured(x, y, tol) ==
    LET startIdx == getPixelIndex(x, y, width)
    IN  [x |-> x, y |-> y, R |-> canvas[startIdx], G |-> canvas[startIdx + 1],
         B |-> canvas[startIdx + 2], A |-> canvas[startIdx + 3], tol |-> tol]

\* floodFill called on a transparent seed: returns before the loop.
FloodReturnEarly ==
    /\ pc = "idle"
    /\ calls < MaxCalls
    /\ \E x \in 0..(width - 1), y \in 0..(height - 1), tol \in Tolerances :
          /\ FloodArgs(x, y, tol)
          /\ seedIsTransparent(Captured(x, y, tol).A)
          /\ start' = Captured(x, y, tol)
          /\ stack' = << <<x, y>> >>
    /\ data' = canvas
    /\ visited' = {}
    /\ calls' = calls + 1
    /\ UNCHANGED <<editorVars, pc, width, height, canvas, putCount, ccVars, seamVars>>

\* floodFill called on a visible seed: enters the loop.
FloodEnter ==
    /\ pc = "idle"
    /\ calls < MaxCalls
    /\ \E x \in 0..(width - 1), y \in 0..(height - 1), tol \in Tolerances :
          /\ FloodArgs(x, y, tol)
          /\ ~seedIsTransparent(Captured(x, y, tol).A)
          /\ start' = Captured(x, y, tol)
          /\ stack' = << <<x, y>> >>
    /\ data' = canvas
    /\ visited' = {}
    /\ pc' = "loop"
    /\ UNCHANGED <<editorVars, width, height, canvas, calls, putCount, ccVars, seamVars>>

Top == stack[Len(stack)]
Popped == SubSeq(stack, 1, Len(stack) - 1)

\* One iteration that pops an already visited coordinate.
FloodSkipVisited ==
    /\ pc = "loop"
    /\ stack # <<>>
    /\ Top \in visited
    /\ stack' = Popped
    /\ UNCHANGED <<editorVars, pc, width, height, canvas, data, visited, start, calls, putCount, ccVars, seamVars>>

\* One iteration on a new coordinate that matches the seed colour.
FloodMatch ==
    /\ pc = "loop"
    /\ stack # <<>>
    /\ Top \notin visited
    /\ LET x == Top[1]
           y == Top[2]
           idx == getPixelIndex(x, y, width)
       IN  /\ colorMatch(data, idx, start)
           /\ visited' = markVisited(visited, Top)
           /\ data' = erase(data, idx)
           /\ stack' = pushNeighbors(Popped, x, y, width, height)
    /\ UNCHANGED <<editorVars, pc, width, height, canvas, start, calls, putCount, ccVars, seamVars>>

\* One iteration on a new coordinate that does not match.
FloodNoMatch ==
    /\ pc = "loop"
    /\ stack # <<>>
    /\ Top \notin visited
    /\ ~colorMatch(data, getPixelIndex(Top[1], Top[2], width), start)
    /\ visited' = markVisited(visited, Top)
    /\ stack' = Popped
    /\ UNCHANGED <<editorVars, pc, width, height, canvas, data, start, calls, putCount, ccVars, seamVars>>

\* The loop has ended: ctx.putImageData(imageData, 0, 0) and return.
FloodPut ==
    /\ pc = "loop"
    /\ stack = <<>>
    /\ canvas' = data
    /\ putCount' = putCount + 1
    /\ calls' = calls + 1
    /\ pc' = "idle"
    /\ UNCHANGED <<editorVars, width, height, data, stack, visited, start, ccVars, seamVars>>

NextFlood ==
    \/ FloodReturnEarly
    \/ FloodEnter
    \/ FloodSkipVisited
    \/ FloodMatch
    \/ FloodNoMatch
    \/ FloodPut

SpecFlood == InitFlood /\ [][NextFlood]_vars

\* floodFill is synchronous: a call that has entered its loop runs its
\* iterations and its return without being suspended.
FloodRuns == FloodSkipVisited \/ FloodMatch \/ FloodNoMatch \/ FloodPut
SpecFloodFair == SpecFlood /\ WF_vars(FloodRuns)

(***************************************************************************)
(* Properties of floodFill.  Until FloodPut `canvas` is the buffer as it   *)
(* was before the call and `data` the buffer the call works on.            *)
(***************************************************************************)
Pixels == (0..(width - 1)) \X (0..(height - 1))
\* Channel k (0 = R .. 3 = A) of pixel p of buffer d.
Chan(d, p, k) == d[4 * (p[2] * width + p[1]) + k]
Seed == <<start.x, start.y>>
LoopEnded == pc = "loop" /\ stack = <<>>

\* The pixels of buffer d that match the seed pixel of d within tol.
Matching(d, seed, tol) ==
    { p \in Pixels :
        /\ Chan(d, p, 3) # 0
        /\ \A k \in 0..2 : Abs(Chan(d, p, k) - Chan(d, seed, k)) <= tol }
Adjacent(p, q) == Abs(p[1] - q[1]) + Abs(p[2] - q[2]) = 1
RECURSIVE Grow(_, _)
Grow(S, M) ==
    LET N == { q \in M : \E p \in S : Adjacent(p, q) }
    IN  IF N \subseteq S THEN S ELSE Grow(S \cup N, M)
\* The 4-connected region of the seed within the matching pixels.
Region(d, seed, tol) == Grow({seed} \cap Matching(d, seed, tol), Matching(d, seed, tol))
Erased == { p \in Pixels : Chan(data, p, 3) = 0 /\ Chan(canvas, p, 3) # 0 }

\* C5: when a floodFill call on a visible seed has finished its loop, the
\* pixels whose alpha it set to 0 are exactly the 4-connected region of the
\* seed among the pixels that, before the call, were visible and within the
\* tolerance of the seed in R, G and B.
C5_FillIsRegion == LoopEnded => Erased = Region(canvas, Seed, start.tol)
\* A fill of two or more pixels that leaves a matching pixel (cut off from
\* the seed) and a pixel of another colour alone.
C5_Witness ==
    /\ LoopEnded
    /\ Cardinality(Erased) >= 2
    /\ Matching(canvas, Seed, start.tol) \ Erased # {}
    /\ \E p \in Pixels : Chan(canvas, p, 3) # 0 /\ p \notin Matching(canvas, Seed, start.tol)

\* C6: a floodFill call changes only alpha bytes, only to 0, and only of
\* pixels that matched: every other byte of the canvas is as before.
C6_OnlyAlphaToZero ==
    [][\A i \in DOMAIN canvas :
          canvas'[i] # canvas[i] =>
             /\ i % 4 = 3
             /\ canvas'[i] = 0
             /\ <<(i \div 4) % width, (i \div 4) \div width>>
                   \in Matching(canvas, Seed, start.tol)]_vars
\* A call has returned having erased a pixel whose colour is kept, next to
\* a pixel that is still visible.
C6_Witness ==
    /\ pc = "idle"
    /\ putCount = 1
    /\ \E p \in Pixels : Chan(canvas, p, 3) = 0 /\ Chan(canvas, p, 0) = 12
    /\ \E p \in Pixels : Chan(canvas, p, 3) = 128

\* C7: once a call has returned, the seed pixel is transparent and calling
\* floodFill again with the same seed and tolerance changes no byte.
C7_Idempotent ==
    [][calls >= 1 => (Chan(canvas, Seed, 3) = 0 /\ canvas' = canvas)]_vars
\* Two calls have returned, the first of which erased at least two pixels.
C7_Witness ==
    /\ calls = 2
    /\ putCount = 1
    /\ Cardinality({ p \in Pixels : Chan(canvas, p, 3) = 0 }) >= 2
    /\ \E p \in Pixels : Chan(canvas, p, 3) # 0

Uniform(d) == \A p, q \in Pixels : \A k \in 0..3 : Chan(d, p, k) = Chan(d, q, k)

\* C8: on a single-colour canvas, with tolerance 0 and any seed, the
\* finished fill has set the alpha of every pixel to 0.
C8_UniformErasedWhole ==
    (LoopEnded /\ Uniform(canvas) /\ start.tol = 0) =>
        \A p \in Pixels : Chan(data, p, 3) = 0
\* A finished fill of a visible single-colour 2x2 canvas from its last pixel.
C8_Witness ==
    /\ LoopEnded
    /\ Uniform(canvas)
    /\ start.tol = 0
    /\ width = 2 /\ height = 2
    /\ Seed = <<1, 1>>
    /\ Chan(canvas, Seed, 3) # 0

\* C9: a call on a transparent seed returns without changing a byte of the
\* buffer and without writing the buffer back to the canvas.
C9_TransparentSeedNoOp ==
    [][(calls' = calls + 1 /\ Chan(canvas, <<start'.x, start'.y>>, 3) = 0) =>
          (canvas' = canvas /\ data' = canvas /\ putCount' = putCount /\ pc' = "idle")]_vars
\* A call on a transparent seed of a canvas with visible pixels has returned.
C9_Witness ==
    /\ calls = 1
    /\ putCount = 0
    /\ Chan(canvas, Seed, 3) = 0
    /\ \E p \in Pixels : Chan(canvas, p, 3) # 0

(***************************************************************************)
(* filterLargestComponent                                                  *)
(* Arrays are functions on 0..size-1; `visited` is the Uint8Array of the   *)
(* function (0 / 1); the queue is a sequence and `head` counts the entries *)
(* already taken from it.                                                  *)
(***************************************************************************)
Background == -10
\* Scores the small masks are built from: the sentinel, zero and two
\* different foreground confidences.
MaskValues == {Background, 0, 1, 2}

\* A 15 x 10 mask: a 4 x 10 blob of 40 pixels (score 2) on the left, one
\* column of zeros, a 10 x 10 blob of 100 pixels (score 1) on the right.
BlobMask == [i \in 0..149 |-> IF i % 15 < 4 THEN 2 ELSE IF i % 15 = 4 THEN 0 ELSE 1]

getIdx(x, y, w) == y * w + x

isForeground(v) == v > 0
\* maskData[idx] > 0: an index past the end of the array reads undefined,
\* and undefined > 0 is false.
readsForeground(mask, idx) == idx \in DOMAIN mask /\ isForeground(mask[idx])

neighborsNoDown(cx, cy) ==
    << <<cx - 1, cy>>, <<cx + 1, cy>>, <<cx, cy - 1>> >>
neighbors(cx, cy) ==
    << <<cx - 1, cy>>, <<cx + 1, cy>>, <<cx, cy - 1>>, <<cx, cy + 1>> >>

inBounds(nx, ny, w, h) == nx >= 0 /\ nx < w /\ ny >= 0 /\ ny < h

\* The `for (const { nx, ny } of neighbors)` loop from entry k on, over the
\* arrays st = [visited, labels, queue].
RECURSIVE visitNeighbors(_, _, _, _, _, _, _)
visitNeighbors(ns, k, st, mask, label, w, h) ==
    IF k > Len(ns) THEN st
    ELSE LET nx == ns[k][1]
             ny == ns[k][2]
             nIdx == getIdx(nx, ny, w)
             hit == /\ inBounds(nx, ny, w, h)
                    /\ readsForeground(mask, nIdx)
                    /\ st.visited[nIdx] = 0
             st2 == IF hit
                    THEN [visited |-> [st.visited EXCEPT ![nIdx] = 1],
                          labels |-> [st.labels EXCEPT ![nIdx] = label],
                          queue |-> Append(st.queue, nIdx)]
                    ELSE st
         IN  visitNeighbors(ns, k + 1, st2, mask, label, w, h)

\* componentSizes.forEach from label l on: the first label of the greatest
\* size.
RECURSIVE findLargestInverted(_, _, _, _)
findLargestInverted(sizes, l, bestLabel, bestSize) ==
    IF l \notin DOMAIN sizes THEN bestLabel
    ELSE IF sizes[l] < bestSize
         THEN findLargestInverted(sizes, l + 1, l, sizes[l])
         ELSE findLargestInverted(sizes, l + 1, bestLabel, bestSize)
RECURSIVE findLargestLastWins(_, _, _, _)
findLargestLastWins(sizes, l, bestLabel, bestSize) ==
    IF l \notin DOMAIN sizes THEN bestLabel
    ELSE IF sizes[l] >= bestSize
         THEN findLargestLastWins(sizes, l + 1, l, sizes[l])
         ELSE findLargestLastWins(sizes, l + 1, bestLabel, bestSize)
RECURSIVE findLargestOrZero(_, _, _, _)
findLargestOrZero(sizes, l, bestLabel, bestSize) ==
    IF l \notin DOMAIN sizes THEN (IF bestLabel = -1 THEN 0 ELSE bestLabel)
    ELSE IF sizes[l] > bestSize
         THEN findLargestOrZero(sizes, l + 1, l, sizes[l])
         ELSE findLargestOrZero(sizes, l + 1, bestLabel, bestSize)
RECURSIVE findLargest(_, _, _, _)
findLargest(sizes, l, bestLabel, bestSize) ==
    IF l \notin DOMAIN sizes THEN bestLabel
    ELSE IF sizes[l] > bestSize
         THEN findLargest(sizes, l + 1, l, sizes[l])
         ELSE findLargest(sizes, l + 1, bestLabel, bestSize)

\* The new mask: one element for each of the `size` labels.
buildMaskKeptOnly(mask, lab, best) ==
    [i \in { j \in DOMAIN lab : lab[j] = best } |-> mask[i]]
buildMask(mask, lab, best) ==
    [i \in DOMAIN lab |-> IF lab[i] = best THEN mask[i] ELSE Background]

InitCC ==
    /\ pc = "scan"
    /\ EditorIdle
    /\ FloodIdle
    /\ data = <<>>
    /\ SeamIdle
    /\ \/ \E wh \in Dims(MaxMaskCells) :
             /\ width = wh[1]
             /\ height = wh[2]
             /\ maskData \in [0..(wh[1] * wh[2] - 1) -> MaskValues]
       \/ /\ width = 15
          /\ height = 10
          /\ maskData = BlobMask
    /\ visited = [i \in DOMAIN maskData |-> 0]
    /\ labels = [i \in DOMAIN maskData |-> 0]
    /\ currentLabel = 1
    /\ componentSizes = <<>>
    /\ queue = <<>>
    /\ head = 0
    /\ count = 0
    /\ scan = 0
    /\ maxLabel = -1
    /\ newMask = <<>>

\* A call with any dimensions 0..2 and an array of any length up to
\* MaxArgCells, whether or not its length is width * height.
InitCCArgs ==
    /\ pc = "scan"
    /\ EditorIdle
    /\ FloodIdle
    /\ data = <<>>
    /\ SeamIdle
    /\ width \in 0..2
    /\ height \in 0..2
    /\ \E n \in 0..MaxArgCells : maskData \in [0..(n - 1) -> {Background, 1}]
    /\ visited = [i \in 0..(width * height - 1) |-> 0]
    /\ labels = [i \in 0..(width * height - 1) |-> 0]
    /\ currentLabel = 1
    /\ componentSizes = <<>>
    /\ queue = <<>>
    /\ head = 0
    /\ count = 0
    /\ scan = 0
    /\ maxLabel = -1
    /\ newMask = <<>>

StartsComponent(idx) == readsForeground(maskData, idx) /\ visited[idx] = 0

\* An iteration of the raster scan on a pixel that starts no component.
CCScanSkip ==
    /\ pc = "scan"
    /\ scan < width * height
    /\ ~StartsComponent(scan)
    /\ scan' = scan + 1
    /\ UNCHANGED <<editorVars, pc, width, height, visited, data, floodVars, maskData, labels,
                   currentLabel, componentSizes, queue, head, count, maxLabel, newMask, seamVars>>

\* An iteration of the raster scan on an unvisited foreground pixel: the
\* breadth-first traversal of its component starts.
CCScanStart ==
    /\ pc = "scan"
    /\ scan < width * height
    /\ StartsComponent(scan)
    /\ queue' = <<scan>>
    /\ visited' = [visited EXCEPT ![scan] = 1]
    /\ labels' = [labels EXCEPT ![scan] = currentLabel]
    /\ count' = 0
    /\ head' = 0
    /\ pc' = "bfs"
    /\ UNCHANGED <<editorVars, width, height, data, floodVars, maskData, currentLabel, componentSizes,
                   scan, maxLabel, newMask, seamVars>>

\* One iteration of `while (head < queue.length)`.
CCBfsStep ==
    /\ pc = "bfs"
    /\ head < Len(queue)
    /\ LET currIdx == queue[head + 1]
           cx == currIdx % width
           cy == currIdx \div width
           st == visitNeighbors(neighbors(cx, cy), 1,
                                [visited |-> visited, labels |-> labels, queue |-> queue],
                                maskData, currentLabel, width, height)
       IN  /\ visited' = st.visited
           /\ labels' = st.labels
           /\ queue' = st.queue
    /\ head' = head + 1
    /\ count' = count + 1
    /\ UNCHANGED <<editorVars, pc, width, height, data, floodVars, maskData, currentLabel, componentSizes,
                   scan, maxLabel, newMask, seamVars>>

\* The traversal has emptied the queue: record the size, next label, and
\* the raster scan goes on.
CCBfsEnd ==
    /\ pc = "bfs"
    /\ head >= Len(queue)
    /\ componentSizes' = (currentLabel :> count) @@ componentSizes
    /\ currentLabel' = currentLabel + 1
    /\ scan' = scan + 1
    /\ pc' = "scan"
    /\ UNCHANGED <<editorVars, width, height, visited, data, floodVars, maskData, labels, queue, head,
                   count, maxLabel, newMask, seamVars>>

\* The scan has ended: choose the largest component, build and return the
\* new mask.
CCFinish ==
    /\ pc = "scan"
    /\ scan >= width * height
    /\ maxLabel' = findLargest(componentSizes, 1, -1, -1)
    /\ newMask' = buildMask(maskData, labels, maxLabel')
    /\ pc' = "done"
    /\ UNCHANGED <<editorVars, width, height, visited, data, floodVars, maskData, labels, currentLabel,
                   componentSizes, queue, head, count, scan, seamVars>>

NextCC ==
    \/ CCScanSkip
    \/ CCScanStart
    \/ CCBfsStep
    \/ CCBfsEnd
    \/ CCFinish

SpecCC == InitCC /\ [][NextCC]_vars
SpecCCArgs == InitCCArgs /\ [][NextCC]_vars

(***************************************************************************)
(* Properties of filterLargestComponent.                                   *)
(***************************************************************************)
Cells == DOMAIN maskData
Foreground == { i \in Cells : maskData[i] > 0 }
CellsAdjacent(i, j) ==
    \/ (i \div width = j \div width /\ Abs(i - j) = 1)
    \/ (i % width = j % width /\ Abs(i - j) = width)
RECURSIVE GrowCells(_, _, _)
GrowCells(S, frontier, M) ==
    LET N == { j \in M \ S : \E i \in frontier : CellsAdjacent(i, j) }
    IN  IF N = {} THEN S ELSE GrowCells(S \cup N, N, M)
\* The 4-connected foreground component of pixel i.
Component(i) == GrowCells({i}, {i}, Foreground)
Kept == { i \in DOMAIN newMask : newMask[i] > 0 }

\* C10: the returned mask keeps the original value on the pixels of one
\* 4-connected foreground component of the greatest pixel count and holds
\* the sentinel -10 everywhere else; so a value is > 0 exactly on that
\* component.
C10_LargestComponentKept ==
    (pc = "done" /\ Foreground # {}) =>
        /\ Kept # {}
        /\ Kept = Component(CHOOSE i \in Kept : TRUE)
        /\ \A i \in Cells : newMask[i] = IF i \in Kept THEN maskData[i] ELSE -10
        /\ \A j \in Foreground \ Kept : Cardinality(Component(j)) <= Cardinality(Kept)
\* The 100-pixel blob is kept and the 40-pixel blob, found first, is not.
C10_Witness ==
    /\ pc = "done"
    /\ maskData = BlobMask
    /\ Cardinality(Kept) = 100
    /\ newMask[0] = -10
    /\ newMask[14] = 1

\* C11: filterLargestComponent never writes to its input mask (every
\* element of maskData keeps its value through the call), and the array it
\* returns is another array, of length width * height.
C11_InputMaskUntouched ==
    [][/\ maskData' = maskData
       /\ pc' = "done" => DOMAIN newMask' = 0..(width * height - 1)]_vars
\* A call has returned a mask that differs from its input.
C11_Witness ==
    /\ pc = "done"
    /\ Foreground # {}
    /\ newMask # maskData

\* C12: if no element of the mask is > 0 the call returns a mask in which
\* every element is the background sentinel -10.
C12_NoForegroundAllBackground ==
    (pc = "done" /\ Foreground = {}) =>
        /\ DOMAIN newMask = Cells
        /\ \A i \in Cells : newMask[i] = -10
\* A call has returned for a mask without foreground that held zeros and
\* sentinels.
C12_Witness ==
    /\ pc = "done"
    /\ Foreground = {}
    /\ \E i, j \in Cells : maskData[i] = 0 /\ maskData[j] = -10

\* The first pixel of a set of pixels in raster order (row by row, left to
\* right: the least index).
FirstPixel(S) == CHOOSE i \in S : \A j \in S : i <= j
\* The foreground components of the greatest pixel count.
Components == { Component(i) : i \in Foreground }
LargestComponents ==
    LET comps == Components
    IN  { K \in comps : \A L \in comps : Cardinality(L) <= Cardinality(K) }

\* C13: when several foreground components share the greatest pixel count
\* the one whose first pixel comes earliest in raster order is kept, and
\* the pixels of all the others are set to the sentinel.
C13_TieKeepsFirstInRasterOrder ==
    (pc = "done" /\ Cardinality(LargestComponents) >= 2) =>
        /\ Kept \in LargestComponents
        /\ \A K \in LargestComponents : FirstPixel(Kept) <= FirstPixel(K)
        /\ \A K \in LargestComponents \ {Kept} : \A i \in K : newMask[i] = -10
\* A call has returned for a mask with two largest components.
C13_Witness ==
    /\ pc = "done"
    /\ Cardinality(LargestComponents) >= 2
    /\ \E K \in LargestComponents : Cardinality(K) >= 2 /\ K # Kept

(***************************************************************************)
(* detectSeamsLocal / detectAxis                                           *)
(*                                                                         *)
(* The code computes in floating point; the model computes the same        *)
(* quantities exactly, as integers, each array holding a fixed positive    *)
(* multiple of the array of the code:                                      *)
(*   variances[i]      = [num, count], num = 9 * count^2 * variance        *)
(*   scores[i]         = (crossLimit / step) * score = diffSum             *)
(*   smoothedScores[i] = (2 * smoothWindow + 1) * (crossLimit / step)      *)
(*                         * smoothed score = the window sum of diffSum    *)
(* and each comparison of the code is made on the scaled numbers.  Arrays  *)
(* are functions on 0..limit-1, lists are sequences.                       *)
(***************************************************************************)
gapThreshold == 100
varianceStep == 4
gradientStep == 2
smoothWindow == 2
localCheck == 10
duplicateDistance == 20
minGapSpan == 2

Max(a, b) == IF a > b THEN a ELSE b
Min(a, b) == IF a < b THEN a ELSE b

limit == IF isHorizontal THEN height ELSE width
crossLimit == IF isHorizontal THEN width ELSE height

\* Byte index of the pixel at position j of line i.
lineIdxShifted(w, isH, i, j) == (IF isH THEN (i * w + j) * 4 ELSE (j * w + i) * 4) + 1
lineIdx(w, isH, i, j) == IF isH THEN (i * w + j) * 4 ELSE (j * w + i) * 4

\* Sum of f[lo..hi], by halves (the loops of the code run over more lines
\* than a recursion over single steps can be deep).
RECURSIVE SumFn(_, _, _)
SumFn(f, lo, hi) ==
    IF lo > hi THEN 0
    ELSE IF lo = hi THEN f[lo]
    ELSE LET m == (lo + hi) \div 2 IN SumFn(f, lo, m) + SumFn(f, m + 1, hi)

\* Number of iterations of `for (j = 0; j < cross; j += step)`.
sampleCount(cross, step) == (cross + step - 1) \div step

\* The variance of line i: the sums of the inner loop over the positions
\* j = 0, 4, 8, ... (grey is 3 * val), then
\* 9 * count^2 * (sumSq / count - mean * mean), with count.
lineVariance(d, w, isH, cross, i) ==
    LET samples == sampleCount(cross, varianceStep)
        grey == [t \in 0..(samples - 1) |->
                    LET idx == lineIdx(w, isH, i, t * varianceStep)
                    IN  d[idx] + d[idx + 1] + d[idx + 2]]
        sum == SumFn(grey, 0, samples - 1)
        sumSq == SumFn([t \in 0..(samples - 1) |-> grey[t] * grey[t]], 0, samples - 1)
    IN  [num |-> samples * sumSq - sum * sum, count |-> samples]

\* variances[i] < gapThreshold
isLowVariance(v) == v.num < gapThreshold * 9 * v.count * v.count

gapMidpoint(gapStart, gapEnd) == (gapStart + gapEnd) \div 2

\* gapEnd - gapStart >= 2
wideEnough(gapStart, gapEnd) == gapEnd - gapStart >= minGapSpan

\* The ascending sequence of the members of a set of integers.
Ascending(S) ==
    [k \in 1..Cardinality(S) |-> CHOOSE m \in S : Cardinality({ x \in S : x < m }) = k - 1]

\* One iteration of the run-finding loop at line i: st.inGap, st.gapStart
\* and st.gaps are the variables of the loop.
gapStep(vs, st, i) ==
    IF isLowVariance(vs[i])
    THEN IF ~st.inGap THEN [st EXCEPT !.inGap = TRUE, !.gapStart = i] ELSE st
    ELSE IF st.inGap
         THEN LET gapEnd == i - 1
              IN  [st EXCEPT !.inGap = FALSE,
                             !.gaps = IF wideEnough(st.gapStart, gapEnd)
                                      THEN Append(@, gapMidpoint(st.gapStart, gapEnd))
                                      ELSE @]
         ELSE st

\* The iterations lo .. hi in order, by halves.
RECURSIVE gapLoop(_, _, _, _)
gapLoop(vs, st, lo, hi) ==
    IF lo > hi THEN st
    ELSE IF lo = hi THEN gapStep(vs, st, lo)
    ELSE LET m == (lo + hi) \div 2
             half == gapLoop(vs, st, lo, m)
         IN  IF half.inGap \in BOOLEAN THEN gapLoop(vs, half, m + 1, hi) ELSE half

\* The run still open after the loop ends at the last line.
gapAtEndDropped(st, lim) == st.gaps
gapAtEnd(st, lim) ==
    IF st.inGap /\ wideEnough(st.gapStart, lim - 1)
    THEN Append(st.gaps, gapMidpoint(st.gapStart, lim - 1))
    ELSE st.gaps

gapScan(vs, lim) ==
    gapAtEnd(gapLoop(vs, [inGap |-> FALSE, gapStart |-> 0, gaps |-> <<>>], 0, lim - 1), lim)

\* The inner loop of the gradient pass, over the positions j = 0, 2, 4, ...
diffSum(d, w, isH, cross, i) ==
    LET samples == sampleCount(cross, gradientStep)
    IN  SumFn([t \in 0..(samples - 1) |->
                  LET idx1 == lineIdx(w, isH, i, t * gradientStep)
                      idx2 == lineIdx(w, isH, i - 1, t * gradientStep)
                  IN  Abs(d[idx1] - d[idx2]) + Abs(d[idx1 + 1] - d[idx2 + 1])
                        + Abs(d[idx1 + 2] - d[idx2 + 2])],
              0, samples - 1)

\* The gradient pass writes the lines i = 1 .. limit - 1; scores[0] keeps
\* the 0 of the new array.
scoreLineFromZero(d, w, isH, cross, i) ==
    IF i >= 1 THEN diffSum(d, w, isH, cross, i) ELSE 1
scoreLine(d, w, isH, cross, i) ==
    IF i >= 1 THEN diffSum(d, w, isH, cross, i) ELSE 0

\* scores[i] = diffSum / (crossLimit / step), as a fraction.
scoreOf(ds, cross) == [num |-> gradientStep * ds, den |-> cross]

\* The sum of the smoothing loop, k = -smoothWindow .. smoothWindow.
windowSum(sc, i) == SumFn([k \in (-smoothWindow)..smoothWindow |-> sc[i + k]],
                          -smoothWindow, smoothWindow)

ArrayToSeq(a, lim) == [k \in 1..lim |-> a[k - 1]]
nonZeroScores(sm, lim) == SelectSeq(ArrayToSeq(sm, lim), LAMBDA v : v > 0)

RECURSIVE Gcd(_, _)
Gcd(a, b) == IF b = 0 THEN a ELSE Gcd(b, a % b)
RECURSIVE GcdFn(_, _, _)
GcdFn(f, lo, hi) ==
    IF lo > hi THEN 0
    ELSE IF lo = hi THEN f[lo]
    ELSE LET m == (lo + hi) \div 2 IN Gcd(GcdFn(f, lo, m), GcdFn(f, m + 1, hi))

\* The mean and variance of the positive scores, as the count n, the sum t
\* and the sum of squares q of the scores divided by their common divisor g
\* (the threshold test is unchanged by a common positive factor).
scoreStats(nz) ==
    LET g == GcdFn(nz, 1, Len(nz))
        r == [k \in 1..Len(nz) |-> nz[k] \div g]
    IN  [g |-> g, n |-> Len(nz), t |-> SumFn(r, 1, Len(nz)),
         q |-> SumFn([k \in 1..Len(nz) |-> r[k] * r[k]], 1, Len(nz))]

\* smoothedScores[i] > mean + 3.5 * stdDev:
\* n*v - t > 0 and 4 (n*v - t)^2 > 49 (n*q - t^2), v the score divided by g.
aboveThresholdNotStrict(v, st) ==
    LET a == st.n * (v \div st.g) - st.t
    IN  /\ a >= 0
        /\ 4 * a * a >= 49 * (st.n * st.q - st.t * st.t)
aboveThresholdMeanOnly(v, st) == st.n * (v \div st.g) - st.t > 0
aboveThreshold(v, st) ==
    LET a == st.n * (v \div st.g) - st.t
    IN  /\ a > 0
        /\ 4 * a * a > 49 * (st.n * st.q - st.t * st.t)

\* No score in [max(0, i - localCheck), min(limit, i + localCheck)) is higher.
isLocalMax(sm, lim, i) ==
    \A k \in Max(0, i - localCheck)..(Min(lim, i + localCheck) - 1) : ~(sm[k] > sm[i])

\* The peak loop, i = 1 .. limit - 2.
peakScan(sm, st, lim) ==
    SelectSeq([k \in 1..(lim - 2) |-> k],
              LAMBDA i : aboveThreshold(sm[i], st) /\ isLocalMax(sm, lim, i))

\* Stable insertion of c into a sequence ordered by score, highest first.
RECURSIVE insertByScore(_, _, _)
insertByScore(sorted, c, sm) ==
    IF sorted = <<>> THEN <<c>>
    ELSE IF sm[Head(sorted)] >= sm[c]
         THEN <<Head(sorted)>> \o insertByScore(Tail(sorted), c, sm)
         ELSE <<c>> \o sorted
sortByScoreNone(cands, k, sm) == cands
RECURSIVE sortByScore(_, _, _)
sortByScore(cands, k, sm) ==
    IF k = 0 THEN <<>> ELSE insertByScore(sortByScore(cands, k - 1, sm), cands[k], sm)

RECURSIVE insertAscending(_, _)
insertAscending(sorted, c) ==
    IF sorted = <<>> THEN <<c>>
    ELSE IF Head(sorted) <= c
         THEN <<Head(sorted)>> \o insertAscending(Tail(sorted), c)
         ELSE <<c>> \o sorted
RECURSIVE sortAscending(_, _)
sortAscending(q, k) ==
    IF k = 0 THEN <<>> ELSE insertAscending(sortAscending(q, k - 1), q[k])

\* Math.abs(c - best) >= minDistance, minDistance = max(50, limit / 15).
farEnoughFloorOnly(c, best, lim) == Abs(c - best) >= 50
farEnough(c, best, lim) == 15 * Abs(c - best) >= Max(15 * 50, lim)

\* The `while (candidates.length > 0)` loop.
RECURSIVE selectGreedy(_, _)
selectGreedy(cands, lim) ==
    IF cands = <<>> THEN <<>>
    ELSE LET best == Head(cands)
         IN  <<best>> \o selectGreedy(SelectSeq(cands, LAMBDA c : farEnough(c, best, lim)), lim)

\* v > margin && v < limit - margin, margin = limit * 0.02.
insideMarginsLowOnly(v, lim) == 50 * v > lim
insideMargins(v, lim) == 50 * v > lim /\ 50 * v < 49 * lim

isDuplicateNever(splits, edge) == FALSE
isDuplicate(splits, edge) ==
    \E k \in 1..Len(splits) : Abs(splits[k] - edge) < duplicateDistance

\* The edge loop of the merge from edge k on.
RECURSIVE addEdges(_, _, _, _)
addEdges(splits, es, k, lim) ==
    IF k > Len(es) THEN splits
    ELSE IF ~insideMargins(es[k], lim) \/ isDuplicate(splits, es[k])
         THEN addEdges(splits, es, k + 1, lim)
         ELSE addEdges(Append(splits, es[k]), es, k + 1, lim)

\* The merge of the two channels and the final sort.
combine(gs, es, lim) ==
    LET finalSplits == addEdges(SelectSeq(gs, LAMBDA g : insideMargins(g, lim)), es, 1, lim)
    IN  sortAscending(finalSplits, Len(finalSplits))

\* The array a of n elements, computed once.
Stored(a, n) ==
    LET t == SubSeq([k \in 1..n |-> a[k - 1]], 1, n)
    IN  [i \in 0..(n - 1) |-> t[i + 1]]

\* detectAxis as one function of the buffer d of a w x h picture: the
\* passes in the order of the code.
detectAxis(d, w, h, isH) ==
    LET lim == IF isH THEN h ELSE w
        cross == IF isH THEN w ELSE h
        vs == Stored([i \in 0..(lim - 1) |-> lineVariance(d, w, isH, cross, i)], lim)
        gs == gapScan(vs, lim)
        sc == Stored([i \in 0..(lim - 1) |-> scoreLine(d, w, isH, cross, i)], lim)
        sm == Stored([i \in 0..(lim - 1) |->
                         IF i >= smoothWindow /\ i < lim - smoothWindow
                         THEN windowSum(sc, i)
                         ELSE 0], lim)
        nz == nonZeroScores(sm, lim)
        peaks == IF Len(nz) > 0 THEN peakScan(sm, scoreStats(nz), lim) ELSE <<>>
        selected == selectGreedy(sortByScore(peaks, Len(peaks), sm), lim)
        es == IF Len(peaks) > 0 THEN sortAscending(selected, Len(selected)) ELSE <<>>
    IN  combine(gs, es, lim)

(***************************************************************************)
(* The pictures detectSeamsLocal is run on.  imageSrc describes a picture; *)
(* Render is the decode of onload (drawImage, getImageData).               *)
(*  - "small": every picture of at most MaxSeamCells pixels in two colours *)
(*  - "strip": AxisLen lines of CrossLen pixels.  Lines are textured (the  *)
(*    blue of positions >= 3 is raised by `amp`, 60 outside the flat run:  *)
(*    grey variance exactly 100); with `noise` the red of odd lines is 1;  *)
(*    green rises by `mag` at each jump; lines run along x, or along y     *)
(*    when `transposed`.                                                   *)
(*  - "long": a strip of LongLen lines, long enough for limit / 15 to     *)
(*    exceed 50.                                                           *)
(*  - "runs": AxisLen textured lines of CrossLen pixels with several flat *)
(*    runs.                                                                *)
(*  - "grid": n solid blocks (red, green, blue, ...) of band x h pixels    *)
(*    side by side from the left of a white canvas of w x h pixels,        *)
(*    separated by gaps of `gap` pixels.                                   *)
(***************************************************************************)
SmallPalette == { <<10, 20, 30>>, <<40, 20, 90>> }
SmallSrcs ==
    UNION { { [kind |-> "small", w |-> wh[1], h |-> wh[2], px |-> f] :
                f \in [0..(wh[1] * wh[2] - 1) -> SmallPalette] } :
            wh \in Dims(MaxSeamCells) }

JumpChoices == { [pos |-> 4, mag |-> 10], [pos |-> 40, mag |-> 10], [pos |-> 60, mag |-> 12],
                 [pos |-> 120, mag |-> 10], [pos |-> AxisLen - 4, mag |-> 10] }
FlatChoices == { [from |-> 0, len |-> 0, amp |-> 0], [from |-> 0, len |-> 3, amp |-> 57],
                 [from |-> 50, len |-> 2, amp |-> 57], [from |-> 70, len |-> 10, amp |-> 0],
                 [from |-> 70, len |-> 10, amp |-> 57],
                 [from |-> AxisLen - 3, len |-> 3, amp |-> 57],
                 [from |-> 0, len |-> AxisLen, amp |-> 0] }
\* Two steps of nearly the same height, 10 and 30 lines apart.
CloseJumpSets ==
    { { [pos |-> 40, mag |-> 20], [pos |-> 50, mag |-> 21] },
      { [pos |-> 40, mag |-> 20], [pos |-> 70, mag |-> 21] },
      { [pos |-> 40, mag |-> 21], [pos |-> 70, mag |-> 20] } }
NoFlat == [from |-> 0, len |-> 0, amp |-> 0]
StripSrcs ==
    { [kind |-> "strip", jumps |-> js, flat |-> fl, noise |-> nz, transposed |-> tr] :
        js \in { S \in SUBSET JumpChoices : Cardinality(S) <= MaxJumps },
        fl \in FlatChoices, nz \in BOOLEAN, tr \in BOOLEAN }
      \cup { [kind |-> "strip", jumps |-> js, flat |-> NoFlat, noise |-> nz, transposed |-> tr] :
               js \in CloseJumpSets, nz \in BOOLEAN, tr \in BOOLEAN }
\* A noisy strip of LongLen lines with two equal steps 52 lines apart.
LongSrcs ==
    { [kind |-> "long", jumps |-> { [pos |-> 100, mag |-> 10], [pos |-> 152, mag |-> 10] },
       flat |-> NoFlat, noise |-> TRUE, transposed |-> FALSE] }

\* Strips with up to MaxRuns flat runs of 1 to 6 lines, at the first line,
\* inside the axis and up to the last line.
RunChoices == { [from |-> 0, len |-> 3], [from |-> 10, len |-> 1], [from |-> 20, len |-> 2],
                [from |-> 30, len |-> 3], [from |-> 40, len |-> 6],
                [from |-> AxisLen - 3, len |-> 3], [from |-> AxisLen - 2, len |-> 2] }
RunsSrcs ==
    { [kind |-> "runs", flats |-> fs] :
        fs \in { S \in SUBSET RunChoices : Cardinality(S) <= MaxRuns } }

\* The 330 x 100 picture of three 100 x 100 blocks and two 10 px gaps.
ThreeBlocks == [kind |-> "grid", n |-> 3, band |-> 100, gap |-> 10, w |-> 330, h |-> 100]
GridSrcs ==
    { ThreeBlocks }
      \cup { [kind |-> "grid", n |-> n, band |-> 20, gap |-> 4, w |-> 20 * n + 4 * (n - 1),
               h |-> 8] : n \in 1..MaxBands }

ImageSrcs == SmallSrcs \cup StripSrcs \cup LongSrcs \cup RunsSrcs \cup GridSrcs

SrcWidth(src) ==
    CASE src.kind = "small" -> src.w
      [] src.kind = "strip" -> IF src.transposed THEN CrossLen ELSE AxisLen
      [] src.kind = "long" -> LongLen
      [] src.kind = "runs" -> AxisLen
      [] src.kind = "grid" -> src.w
SrcHeight(src) ==
    CASE src.kind = "small" -> src.h
      [] src.kind = "strip" -> IF src.transposed THEN AxisLen ELSE CrossLen
      [] src.kind = "long" -> CrossLen
      [] src.kind = "runs" -> CrossLen
      [] src.kind = "grid" -> src.h

RECURSIVE SumMags(_)
SumMags(S) == IF S = {} THEN 0 ELSE LET j == CHOOSE j \in S : TRUE IN j.mag + SumMags(S \ {j})

\* <<R, G, B, A>> of position j of line i of a strip picture.
StripPixel(src, i, j) ==
    LET inFlat == i >= src.flat.from /\ i < src.flat.from + src.flat.len
        amp == IF inFlat THEN src.flat.amp ELSE 60
    IN  << IF src.noise THEN i % 2 ELSE 0,
           SumMags({ jp \in src.jumps : jp.pos <= i }),
           IF j >= 3 THEN amp ELSE 0,
           (7 * i + j) % 256 >>
\* <<R, G, B, A>> of position j of line i of a picture of flat runs: the
\* texture of the lines of a run is lowered to 57.
RunsPixel(src, i, j) ==
    LET inFlat == \E f \in src.flats : i >= f.from /\ i < f.from + f.len
    IN  << 0, 0, IF j >= 3 THEN (IF inFlat THEN 57 ELSE 60) ELSE 0, 255 >>
GridColors == << <<255, 0, 0>>, <<0, 255, 0>>, <<0, 0, 255>> >>
GridPixel(src, x) ==
    LET k == x \div (src.band + src.gap)
    IN  IF k >= src.n \/ x % (src.band + src.gap) >= src.band
        THEN <<255, 255, 255, 255>>
        ELSE GridColors[(k % 3) + 1] \o <<255>>

PixelOf(src, x, y) ==
    CASE src.kind = "small" -> src.px[y * src.w + x] \o <<255>>
      [] src.kind = "strip" -> IF src.transposed THEN StripPixel(src, y, x)
                                                 ELSE StripPixel(src, x, y)
      [] src.kind = "long" -> StripPixel(src, x, y)
      [] src.kind = "runs" -> RunsPixel(src, x, y)
      [] src.kind = "grid" -> GridPixel(src, x)

Render(src) ==
    LET w == SrcWidth(src)
    IN  [b \in 0..(4 * w * SrcHeight(src) - 1) |->
            PixelOf(src, (b \div 4) % w, (b \div 4) \div w)[(b % 4) + 1]]

\* imageData.data of onload: the bytes read back from the picture drawn.
\* detectAxis only reads them.
imageData == Render(imageSrc)

InitSeam ==
    /\ pc = "load"
    /\ EditorIdle
    /\ FloodIdle
    /\ CCIdle
    /\ visited = {}
    /\ imageSrc \in ImageSrcs
    /\ width = SrcWidth(imageSrc)
    /\ height = SrcHeight(imageSrc)
    /\ data = <<>>
    /\ isHorizontal = TRUE
    /\ variances = <<>>
    /\ gaps = <<>>
    /\ scores = <<>>
    /\ smoothedScores = <<>>
    /\ edges = <<>>
    /\ rowSplits = <<>>
    /\ colSplits = <<>>

\* img.onerror (or no 2d context in onload): the promise is rejected.
SeamLoadError ==
    /\ pc = "load"
    /\ pc' = "rejected"
    /\ UNCHANGED <<editorVars, width, height, visited, data, floodVars, ccVars, seamVars>>

\* img.onload: the picture is drawn and read back, detectAxis(HORIZONTAL)
\* starts.
SeamOnLoad ==
    /\ pc = "load"
    /\ isHorizontal' = TRUE
    /\ pc' = "variance"
    /\ UNCHANGED <<editorVars, width, height, visited, data, floodVars, ccVars, imageSrc, variances, gaps,
                   scores, smoothedScores, edges, rowSplits, colSplits>>

\* The variance pass.
SeamVariance ==
    /\ pc = "variance"
    /\ variances' = [i \in 0..(limit - 1) |->
                        lineVariance(imageData, width, isHorizontal, crossLimit, i)]
    /\ pc' = "gaps"
    /\ UNCHANGED <<editorVars, width, height, visited, data, floodVars, ccVars, imageSrc, isHorizontal,
                   gaps, scores, smoothedScores, edges, rowSplits, colSplits>>

\* The low-variance runs.
SeamGaps ==
    /\ pc = "gaps"
    /\ gaps' = gapScan(variances, limit)
    /\ pc' = "scores"
    /\ UNCHANGED <<editorVars, width, height, visited, data, floodVars, ccVars, imageSrc, isHorizontal,
                   variances, scores, smoothedScores, edges, rowSplits, colSplits>>

\* The gradient pass; index 0 is not written.
SeamScores ==
    /\ pc = "scores"
    /\ scores' = [i \in 0..(limit - 1) |->
                     scoreLine(imageData, width, isHorizontal, crossLimit, i)]
    /\ pc' = "smooth"
    /\ UNCHANGED <<editorVars, width, height, visited, data, floodVars, ccVars, imageSrc, isHorizontal,
                   variances, gaps, smoothedScores, edges, rowSplits, colSplits>>

\* The moving average; indices outside [smoothWindow, limit - smoothWindow)
\* keep the 0 of the new array.
SeamSmooth ==
    /\ pc = "smooth"
    /\ smoothedScores' = [i \in 0..(limit - 1) |->
                             IF i >= smoothWindow /\ i < limit - smoothWindow
                             THEN windowSum(scores, i)
                             ELSE 0]
    /\ pc' = "peaks"
    /\ UNCHANGED <<editorVars, width, height, visited, data, floodVars, ccVars, imageSrc, isHorizontal,
                   variances, gaps, scores, edges, rowSplits, colSplits>>

\* No positive score: the peak block is skipped.
SeamNoScores ==
    /\ pc = "peaks"
    /\ Len(nonZeroScores(smoothedScores, limit)) = 0
    /\ edges' = <<>>
    /\ pc' = "combine"
    /\ UNCHANGED <<editorVars, width, height, visited, data, floodVars, ccVars, imageSrc, isHorizontal,
                   variances, gaps, scores, smoothedScores, rowSplits, colSplits>>

\* The peak loop: scores above the threshold that are local maxima.
SeamPeaks ==
    /\ pc = "peaks"
    /\ Len(nonZeroScores(smoothedScores, limit)) > 0
    /\ edges' = peakScan(smoothedScores, scoreStats(nonZeroScores(smoothedScores, limit)),
                         limit)
    /\ pc' = "filter"
    /\ UNCHANGED <<editorVars, width, height, visited, data, floodVars, ccVars, imageSrc, isHorizontal,
                   variances, gaps, scores, smoothedScores, rowSplits, colSplits>>

\* The distance filter: strongest first, then back in spatial order.
SeamFilter ==
    /\ pc = "filter"
    /\ edges' = IF Len(edges) > 0
                THEN LET selected == selectGreedy(sortByScore(edges, Len(edges), smoothedScores),
                                                  limit)
                     IN  sortAscending(selected, Len(selected))
                ELSE <<>>
    /\ pc' = "combine"
    /\ UNCHANGED <<editorVars, width, height, visited, data, floodVars, ccVars, imageSrc, isHorizontal,
                   variances, gaps, scores, smoothedScores, rowSplits, colSplits>>

\* detectAxis(HORIZONTAL) returns; detectAxis(VERTICAL) starts.
SeamCombineRows ==
    /\ pc = "combine"
    /\ isHorizontal
    /\ rowSplits' = combine(gaps, edges, limit)
    /\ isHorizontal' = FALSE
    /\ pc' = "variance"
    /\ UNCHANGED <<editorVars, width, height, visited, data, floodVars, ccVars, imageSrc, variances, gaps,
                   scores, smoothedScores, edges, colSplits>>

\* detectAxis(VERTICAL) returns; the promise resolves.
SeamCombineCols ==
    /\ pc = "combine"
    /\ ~isHorizontal
    /\ colSplits' = combine(gaps, edges, limit)
    /\ pc' = "resolved"
    /\ UNCHANGED <<editorVars, width, height, visited, data, floodVars, ccVars, imageSrc, isHorizontal,
                   variances, gaps, scores, smoothedScores, edges, rowSplits>>

NextSeam ==
    \/ SeamLoadError
    \/ SeamOnLoad
    \/ SeamVariance
    \/ SeamGaps
    \/ SeamScores
    \/ SeamSmooth
    \/ SeamNoScores
    \/ SeamPeaks
    \/ SeamFilter
    \/ SeamCombineRows
    \/ SeamCombineCols

SpecSeam == InitSeam /\ [][NextSeam]_vars

(***************************************************************************)
(* The edge-only detector (src/unnamed/part_001): detectSeamsLocal with a  *)
(* detectAxis that has the gradient channel only.  Its scores are scaled   *)
(* like those of the combined detector:                                    *)
(*   scores[i]         = (crossLimit / step) * score = diffSum             *)
(*   smoothedScores[i] = (2 * edgeSmoothWindow + 1) * (crossLimit / step)  *)
(*                         * smoothed score                                *)
(* with exact rational arithmetic.  (The code adds float64 quotients, so   *)
(* window sums that are equal here can differ there in the last bit; which *)
(* line of a run of equal scores is taken can differ accordingly.)         *)
(* Its positions are "edge:load", "edge:scores", "edge:smooth",            *)
(* "edge:peaks", "edge:resolved" and "edge:rejected".                      *)
(***************************************************************************)
edgeSmoothWindow == 3
edgeLocalCheck == 5

\* smoothedScores = [...scores], then the moving average over
\* i - 3 .. i + 3 for the lines in [3, limit - 3).
edgeSmooth(sc, lim, i) ==
    IF i >= edgeSmoothWindow /\ i < lim - edgeSmoothWindow
    THEN SumFn([k \in (-edgeSmoothWindow)..edgeSmoothWindow |-> sc[i + k]],
               -edgeSmoothWindow, edgeSmoothWindow)
    ELSE (2 * edgeSmoothWindow + 1) * sc[i]

\* smoothedScores[i] > mean + 2.5 * stdDev:
\* n*v - t > 0 and 4 (n*v - t)^2 > 25 (n*q - t^2), v the score divided by g.
edgeAboveThreshold(v, st) ==
    LET a == st.n * (v \div st.g) - st.t
    IN  /\ a > 0
        /\ 4 * a * a > 25 * (st.n * st.q - st.t * st.t)

\* No score in [max(0, i - 5), min(limit, i + 5)) is higher.
edgeIsLocalMax(sm, lim, i) ==
    \A k \in Max(0, i - edgeLocalCheck)..(Min(lim, i + edgeLocalCheck) - 1) :
        ~(sm[k] > sm[i])

\* i - lastIdx < minDistance, minDistance = max(40, limit / 20).
edgeTooClose(i, lastIdx, lim) == 20 * (i - lastIdx) < Max(20 * 40, lim)

\* The body of `if (isMax)`: a peak close to the last candidate replaces it
\* when it is stronger and is ignored otherwise.
edgeAdd(candidates, i, sm, lim) ==
    IF Len(candidates) > 0
    THEN LET lastIdx == candidates[Len(candidates)]
         IN  IF edgeTooClose(i, lastIdx, lim)
             THEN IF sm[i] > sm[lastIdx]
                  THEN Append(SubSeq(candidates, 1, Len(candidates) - 1), i)
                  ELSE candidates
             ELSE Append(candidates, i)
    ELSE <<i>>

\* The peak loop, i = 1 .. limit - 2, over the lines that pass both tests.
RECURSIVE edgeAddAll(_, _, _, _)
edgeAddAll(peaks, k, sm, lim) ==
    IF k = 0 THEN <<>> ELSE edgeAdd(edgeAddAll(peaks, k - 1, sm, lim), peaks[k], sm, lim)
edgeCandidates(sm, st, lim) ==
    LET peaks == SelectSeq([k \in 1..(lim - 2) |-> k],
                           LAMBDA i : edgeAboveThreshold(sm[i], st) /\ edgeIsLocalMax(sm, lim, i))
    IN  edgeAddAll(peaks, Len(peaks), sm, lim)

InitEdge ==
    /\ pc = "edge:load"
    /\ EditorIdle
    /\ FloodIdle
    /\ CCIdle
    /\ visited = {}
    /\ imageSrc \in ImageSrcs
    /\ width = SrcWidth(imageSrc)
    /\ height = SrcHeight(imageSrc)
    /\ data = <<>>
    /\ isHorizontal = TRUE
    /\ variances = <<>>
    /\ gaps = <<>>
    /\ scores = <<>>
    /\ smoothedScores = <<>>
    /\ edges = <<>>
    /\ rowSplits = <<>>
    /\ colSplits = <<>>

\* img.onerror (or no 2d context in onload): the promise is rejected.
EdgeLoadError ==
    /\ pc = "edge:load"
    /\ pc' = "edge:rejected"
    /\ UNCHANGED <<editorVars, width, height, visited, data, floodVars, ccVars, seamVars>>

\* img.onload: detectAxis(HORIZONTAL) starts.
EdgeOnLoad ==
    /\ pc = "edge:load"
    /\ isHorizontal' = TRUE
    /\ pc' = "edge:scores"
    /\ UNCHANGED <<editorVars, width, height, visited, data, floodVars, ccVars, imageSrc, variances, gaps,
                   scores, smoothedScores, edges, rowSplits, colSplits>>

\* The gradient pass.
EdgeScores ==
    /\ pc = "edge:scores"
    /\ scores' = [i \in 0..(limit - 1) |->
                     scoreLine(imageData, width, isHorizontal, crossLimit, i)]
    /\ pc' = "edge:smooth"
    /\ UNCHANGED <<editorVars, width, height, visited, data, floodVars, ccVars, imageSrc, isHorizontal,
                   variances, gaps, smoothedScores, edges, rowSplits, colSplits>>

\* The moving average on a copy of scores.
EdgeSmooth ==
    /\ pc = "edge:smooth"
    /\ smoothedScores' = [i \in 0..(limit - 1) |-> edgeSmooth(scores, limit, i)]
    /\ pc' = "edge:peaks"
    /\ UNCHANGED <<editorVars, width, height, visited, data, floodVars, ccVars, imageSrc, isHorizontal,
                   variances, gaps, scores, edges, rowSplits, colSplits>>

\* detectAxis returns `candidates`: to rowSplits, and detectAxis(VERTICAL)
\* starts, or to colSplits, and the promise resolves.
EdgeReturn(candidates) ==
    /\ edges' = candidates
    /\ IF isHorizontal
       THEN /\ rowSplits' = candidates
            /\ isHorizontal' = FALSE
            /\ pc' = "edge:scores"
            /\ UNCHANGED colSplits
       ELSE /\ colSplits' = candidates
            /\ pc' = "edge:resolved"
            /\ UNCHANGED <<rowSplits, isHorizontal>>
    /\ UNCHANGED <<editorVars, width, height, visited, data, floodVars, ccVars, imageSrc,
                   variances, gaps, scores, smoothedScores>>

\* No positive score: return [].
EdgeNoScores ==
    /\ pc = "edge:peaks"
    /\ Len(nonZeroScores(smoothedScores, limit)) = 0
    /\ EdgeReturn(<<>>)

\* The peak loop.
EdgePeaks ==
    /\ pc = "edge:peaks"
    /\ Len(nonZeroScores(smoothedScores, limit)) > 0
    /\ EdgeReturn(edgeCandidates(smoothedScores,
                                 scoreStats(nonZeroScores(smoothedScores, limit)), limit))

NextEdge ==
    \/ EdgeLoadError
    \/ EdgeOnLoad
    \/ EdgeScores
    \/ EdgeSmooth
    \/ EdgeNoScores
    \/ EdgePeaks

SpecEdge == InitEdge /\ [][NextEdge]_vars

\* Both detectors, each on every picture.
SpecDetectors == (InitSeam \/ InitEdge) /\ [][NextSeam \/ NextEdge]_vars

(***************************************************************************)
(* The edit history: the hook useImageHistory (src/unnamed/part_002,       *)
(* pc = "hook") and the component ImageEditor (src/components/             *)
(* ImageEditor.tsx, pc = "editor").  history, currentStep, mode, isLoading *)
(* and loadingText are React state: a handler reads the values of the last *)
(* render and enqueues updates, which the next render applies in order.    *)
(* An update is [target, op, arg]: op "value" sets the state to arg,       *)
(* "sliceAppend" is the updater prev => prev.slice(0, arg[1] + 1) with     *)
(* arg[2] pushed, "increment" the updater prev => prev + 1.  Image sources *)
(* are numbers: 0 the initial image, 1 and 2 the results of edits, 10 + s  *)
(* the result of removing the background of s.                             *)
(***************************************************************************)
EditSrcs == {1, 2}
Modes == {NoMode, "CROP", "BACKGROUND"}
LoadingRemoving == "Removing background..."

\* prev.slice(0, n) of an array held as a sequence.
slice(arr, n) == SubSeq(arr, 1, Min(Max(n, 0), Len(arr)))

Update(target, op, arg) == [target |-> target, op |-> op, arg |-> arg]

\* One update applied to the state st.
applyUpdate(st, u) ==
    CASE u.target = "history" /\ u.op = "value" -> [st EXCEPT !.history = u.arg]
      [] u.target = "history" /\ u.op = "sliceAppend" ->
            [st EXCEPT !.history = Append(slice(@, u.arg[1] + 1), u.arg[2])]
      [] u.target = "currentStep" /\ u.op = "value" -> [st EXCEPT !.currentStep = u.arg]
      [] u.target = "currentStep" /\ u.op = "increment" -> [st EXCEPT !.currentStep = @ + 1]
      [] u.target = "mode" -> [st EXCEPT !.mode = u.arg]
      [] u.target = "isLoading" -> [st EXCEPT !.isLoading = u.arg]
      [] u.target = "loadingText" -> [st EXCEPT !.loadingText = u.arg]

\* The updates us[k..] applied in order.
RECURSIVE applyUpdates(_, _, _)
applyUpdates(st, us, k) ==
    IF k > Len(us) THEN st ELSE applyUpdates(applyUpdate(st, us[k]), us, k + 1)

Call(op, src) == [op |-> op, src |-> src]
Rendered == updates = <<>> /\ batch = <<>>

\* useState([initialSrc]), useState(0).
InitHistory ==
    /\ pc \in {"hook", "editor"}
    /\ FloodIdle
    /\ CCIdle
    /\ SeamIdle
    /\ width = 0
    /\ height = 0
    /\ visited = {}
    /\ data = <<>>
    /\ history = <<0>>
    /\ currentStep = 0
    /\ mode = NoMode
    /\ isLoading = FALSE
    /\ loadingText = NoText
    /\ updates = <<>>
    /\ batch = <<>>
    /\ inflight = <<>>

\* A render: the enqueued updates are applied in order.
ReRender ==
    /\ pc \in {"hook", "editor"}
    /\ batch # <<>>
    /\ LET st == applyUpdates([history |-> history, currentStep |-> currentStep,
                               mode |-> mode, isLoading |-> isLoading,
                               loadingText |-> loadingText], updates, 1)
       IN  /\ history' = st.history
           /\ currentStep' = st.currentStep
           /\ mode' = st.mode
           /\ isLoading' = st.isLoading
           /\ loadingText' = st.loadingText
    /\ updates' = <<>>
    /\ batch' = <<>>
    /\ UNCHANGED <<pc, width, height, visited, data, floodVars, ccVars, seamVars, inflight>>

\* ---- useImageHistory ----
\* pushToHistory(newSrc): two functional updates; the slice uses the
\* currentStep the callback captured at the last render.
hookPush(step, newSrc) ==
    << Update("history", "sliceAppend", <<step, newSrc>>),
       Update("currentStep", "increment", 0) >>

HookPush ==
    /\ pc = "hook"
    /\ Len(batch) < MaxBatch
    /\ Len(history) < MaxHistory
    /\ currentStep < MaxHistory
    /\ \E newSrc \in EditSrcs :
          /\ updates' = updates \o hookPush(currentStep, newSrc)
          /\ batch' = Append(batch, Call("push", newSrc))
    /\ UNCHANGED <<pc, width, height, visited, data, floodVars, ccVars, seamVars,
                   history, currentStep, mode, isLoading, loadingText, inflight>>

\* handleUndo: `if (currentStep > 0) setCurrentStep(currentStep - 1)`.
undoUpdates(step) ==
    IF step > 0 THEN << Update("currentStep", "value", step - 1) >> ELSE <<>>

HookUndo ==
    /\ pc = "hook"
    /\ Len(batch) < MaxBatch
    /\ updates' = updates \o undoUpdates(currentStep)
    /\ batch' = Append(batch, Call("undo", 0))
    /\ UNCHANGED <<pc, width, height, visited, data, floodVars, ccVars, seamVars,
                   history, currentStep, mode, isLoading, loadingText, inflight>>

\* handleRedo: `if (currentStep < history.length - 1) setCurrentStep(currentStep + 1)`.
redoUpdates(step, hist) ==
    IF step < Len(hist) - 1 THEN << Update("currentStep", "value", step + 1) >> ELSE <<>>

HookRedo ==
    /\ pc = "hook"
    /\ Len(batch) < MaxBatch
    /\ updates' = updates \o redoUpdates(currentStep, history)
    /\ batch' = Append(batch, Call("redo", 0))
    /\ UNCHANGED <<pc, width, height, visited, data, floodVars, ccVars, seamVars,
                   history, currentStep, mode, isLoading, loadingText, inflight>>

\* resetHistory(newSrc): setHistory([newSrc]), setCurrentStep(0).
HookReset ==
    /\ pc = "hook"
    /\ Len(batch) < MaxBatch
    /\ \E newSrc \in EditSrcs :
          /\ updates' = updates \o << Update("history", "value", <<newSrc>>),
                                      Update("currentStep", "value", 0) >>
          /\ batch' = Append(batch, Call("reset", newSrc))
    /\ UNCHANGED <<pc, width, height, visited, data, floodVars, ccVars, seamVars,
                   history, currentStep, mode, isLoading, loadingText, inflight>>

\* ---- ImageEditor ----
\* pushToHistory(newSrc) with the history and currentStep of a render: both
\* states are set to values.
editorPush(hist, step, newSrc) ==
    LET newHistory == Append(slice(hist, step + 1), newSrc)
    IN  << Update("history", "value", newHistory),
           Update("currentStep", "value", Len(newHistory) - 1) >>

\* A toolbar button: setMode(mode === m ? null : m).
EdSetMode ==
    /\ pc = "editor"
    /\ Rendered
    /\ \E m \in Modes \ {NoMode} :
          /\ updates' = << Update("mode", "value", IF mode = m THEN NoMode ELSE m) >>
          /\ batch' = << Call("mode", 0) >>
    /\ UNCHANGED <<pc, width, height, visited, data, floodVars, ccVars, seamVars,
                   history, currentStep, mode, isLoading, loadingText, inflight>>

\* An edit (crop, resize, rotate, flip, annotate, ...) pushes its result;
\* those made from a mode panel also leave the mode.
EdEdit ==
    /\ pc = "editor"
    /\ Rendered
    /\ Len(history) < MaxHistory
    /\ \E newSrc \in EditSrcs, leavesMode \in BOOLEAN :
          /\ updates' = editorPush(history, currentStep, newSrc)
                          \o (IF leavesMode THEN << Update("mode", "value", NoMode) >>
                                            ELSE <<>>)
          /\ batch' = << Call("push", newSrc) >>
    /\ UNCHANGED <<pc, width, height, visited, data, floodVars, ccVars, seamVars,
                   history, currentStep, mode, isLoading, loadingText, inflight>>

\* The Undo button (disabled at step 0 and while loading): handleUndo.
EdUndo ==
    /\ pc = "editor"
    /\ Rendered
    /\ ~(currentStep = 0 \/ isLoading)
    /\ updates' = undoUpdates(currentStep)
                    \o (IF currentStep > 0 THEN << Update("mode", "value", NoMode) >> ELSE <<>>)
    /\ batch' = << Call("undo", 0) >>
    /\ UNCHANGED <<pc, width, height, visited, data, floodVars, ccVars, seamVars,
                   history, currentStep, mode, isLoading, loadingText, inflight>>

\* The result of removeBackgroundAuto on an image.
removed(src) == 10 + src

\* handleAutoRemoveBg up to its await (the "Auto AI" button of the
\* BACKGROUND panel): the call captures history and currentStep.
EdAutoRemoveBg ==
    /\ pc = "editor"
    /\ Rendered
    /\ mode = "BACKGROUND"
    /\ Len(inflight) < MaxOps
    /\ Len(history) < MaxHistory
    /\ currentStep + 1 \in DOMAIN history
    /\ updates' = << Update("isLoading", "value", TRUE),
                     Update("loadingText", "value", LoadingRemoving) >>
    /\ batch' = << Call("autoRemoveBg", history[currentStep + 1]) >>
    /\ inflight' = Append(inflight, [stage |-> "cleaning", history |-> history,
                                     currentStep |-> currentStep,
                                     src |-> history[currentStep + 1]])
    /\ UNCHANGED <<pc, width, height, visited, data, floodVars, ccVars, seamVars,
                   history, currentStep, mode, isLoading, loadingText>>

\* removeBackgroundAuto: cleanTransparentPixels resolves.
BgCleaned ==
    /\ pc = "editor"
    /\ \E k \in DOMAIN inflight :
          /\ inflight[k].stage = "cleaning"
          /\ inflight' = [inflight EXCEPT ![k].stage = "removing"]
    /\ UNCHANGED <<pc, width, height, visited, data, floodVars, ccVars, seamVars,
                   history, currentStep, mode, isLoading, loadingText, updates, batch>>

\* removeBackgroundAuto: removeBackground resolves, the promise is
\* fulfilled with the new image URL.
BgRemoved ==
    /\ pc = "editor"
    /\ \E k \in DOMAIN inflight :
          /\ inflight[k].stage = "removing"
          /\ inflight' = [inflight EXCEPT ![k].stage = "fulfilled"]
    /\ UNCHANGED <<pc, width, height, visited, data, floodVars, ccVars, seamVars,
                   history, currentStep, mode, isLoading, loadingText, updates, batch>>

\* removeBackgroundAuto: either step fails, the error is rethrown.
BgFailed ==
    /\ pc = "editor"
    /\ \E k \in DOMAIN inflight :
          /\ inflight[k].stage \in {"cleaning", "removing"}
          /\ inflight' = [inflight EXCEPT ![k].stage = "rejected"]
    /\ UNCHANGED <<pc, width, height, visited, data, floodVars, ccVars, seamVars,
                   history, currentStep, mode, isLoading, loadingText, updates, batch>>

\* The `finally` block.
finallyUpdatesFlagOnly == << Update("isLoading", "value", FALSE) >>
finallyUpdates ==
    << Update("isLoading", "value", FALSE), Update("loadingText", "value", NoText) >>

\* handleAutoRemoveBg after the await, fulfilled: pushToHistory(newSrc) of
\* the render the call was made in, setMode(null), finally.
EdRemoveResolved ==
    /\ pc = "editor"
    /\ Rendered
    /\ \E k \in DOMAIN inflight :
          /\ inflight[k].stage = "fulfilled"
          /\ updates' = editorPush(inflight[k].history, inflight[k].currentStep,
                                   removed(inflight[k].src))
                          \o << Update("mode", "value", NoMode) >> \o finallyUpdates
          /\ batch' = << Call("bg:resolved", removed(inflight[k].src)) >>
          /\ inflight' = [inflight EXCEPT ![k].stage = "returned after push"]
    /\ UNCHANGED <<pc, width, height, visited, data, floodVars, ccVars, seamVars,
                   history, currentStep, mode, isLoading, loadingText>>

\* handleAutoRemoveBg after the await, rejected: catch, finally.
EdRemoveRejected ==
    /\ pc = "editor"
    /\ Rendered
    /\ \E k \in DOMAIN inflight :
          /\ inflight[k].stage = "rejected"
          /\ updates' = finallyUpdates
          /\ batch' = << Call("bg:rejected", 0) >>
          /\ inflight' = [inflight EXCEPT ![k].stage = "returned after catch"]
    /\ UNCHANGED <<pc, width, height, visited, data, floodVars, ccVars, seamVars,
                   history, currentStep, mode, isLoading, loadingText>>

NextHistory ==
    \/ ReRender
    \/ HookPush
    \/ HookUndo
    \/ HookRedo
    \/ HookReset
    \/ EdSetMode
    \/ EdEdit
    \/ EdUndo
    \/ EdAutoRemoveBg
    \/ BgCleaned
    \/ BgRemoved
    \/ BgFailed
    \/ EdRemoveResolved
    \/ EdRemoveRejected

SpecHistory == InitHistory /\ [][NextHistory]_vars

\* The promises settle, a continuation runs as soon as the call stack is
\* empty, and React renders after every batch of updates.
SpecHistoryFair ==
    /\ SpecHistory
    /\ WF_vars(ReRender)
    /\ WF_vars(BgCleaned \/ BgRemoved \/ BgFailed)
    /\ SF_vars(EdRemoveResolved \/ EdRemoveRejected)

(***************************************************************************)
(* Properties of detectSeamsLocal.  rowSplits is final once the row pass   *)
(* has returned (the column pass is at its start and gaps, edges still     *)
(* hold the row pass's values); colSplits is final when the promise has    *)
(* resolved (gaps, edges hold the column pass's values).                   *)
(***************************************************************************)
Resolved == pc = "resolved"
RowsReturned == pc = "variance" /\ ~isHorizontal

Range(s) == { s[k] : k \in 1..Len(s) }
StrictlyIncreasing(s) == \A k \in 1..(Len(s) - 1) : s[k] < s[k + 1]
\* margin < v < lim - margin with margin = lim / 50, and 0 < v < lim.
InsideBorder(s, lim) ==
    \A k \in 1..Len(s) :
        /\ 50 * s[k] > lim
        /\ 50 * s[k] < 49 * lim
        /\ 0 < s[k] /\ s[k] < lim
\* Every value comes from one of the two channels, and a value of the edge
\* channel is no duplicate of a value of the gap channel.
Deduplicated(s, gs, es) ==
    /\ Range(s) \subseteq Range(gs) \cup Range(es)
    /\ \A e \in Range(s) \ Range(gs) :
           \A g \in Range(s) \cap Range(gs) : Abs(g - e) >= duplicateDistance

\* C1: each list the detector returns is strictly increasing, has no value
\* of the edge channel that duplicates a value of the gap channel, and
\* every value lies strictly between margin and limit - margin (margin 2%
\* of the axis length), hence strictly between 0 and the dimension.
C1_SplitsOrderedInsideMargins ==
    /\ RowsReturned =>
          /\ StrictlyIncreasing(rowSplits)
          /\ InsideBorder(rowSplits, height)
          /\ Deduplicated(rowSplits, gaps, edges)
    /\ Resolved =>
          /\ StrictlyIncreasing(rowSplits)
          /\ InsideBorder(rowSplits, height)
          /\ StrictlyIncreasing(colSplits)
          /\ InsideBorder(colSplits, width)
          /\ Deduplicated(colSplits, gaps, edges)
\* A resolved run whose column list merges both channels, with a value of
\* the edge channel before a value of the gap channel.
C1_Witness ==
    /\ Resolved
    /\ \E g \in Range(colSplits) \cap Range(gaps) :
          \E e \in Range(colSplits) \ Range(gaps) : e < g

\* Every pixel of the picture read back has the colour of the first.
SingleColour == \A b \in DOMAIN imageData : imageData[b] = imageData[b % 4]

\* C2: for a perfectly uniform single-colour picture the detector returns
\* empty split lists for both axes.
C2_UniformNoSplits ==
    (Resolved /\ SingleColour) => (rowSplits = <<>> /\ colSplits = <<>>)

\* The pixel columns of the g-th gap of a grid picture.
GapColumns(src, g) ==
    LET from == g * src.band + (g - 1) * src.gap
    IN  from..(from + src.gap - 1)
IsBandPicture ==
    /\ imageSrc.kind = "grid"
    /\ imageSrc.n >= 2
    /\ imageSrc.gap >= minGapSpan + 1

\* C3: for N equal solid-colour vertical bands separated by uniform gaps
\* of at least the minimum gap width, colSplits has exactly N - 1 entries
\* and each entry lies in the pixel range of one of the gaps.
C3_BandsSplitAtGaps ==
    (Resolved /\ IsBandPicture) =>
        /\ Len(colSplits) = imageSrc.n - 1
        /\ \A k \in 1..Len(colSplits) :
              \E g \in 1..(imageSrc.n - 1) : colSplits[k] \in GapColumns(imageSrc, g)

\* C4: for the 330 x 100 picture of red, green and blue blocks separated
\* by 10 px white gaps, colSplits is the two gap midpoints (one value in
\* each gap, about 105 and 215) and rowSplits is empty.
C4_ThreeBlocksTwoSplits ==
    (Resolved /\ imageSrc = ThreeBlocks) =>
        /\ Len(colSplits) = 2
        /\ colSplits[1] \in GapColumns(ThreeBlocks, 1)
        /\ colSplits[2] \in GapColumns(ThreeBlocks, 2)
        /\ rowSplits = <<>>

(***************************************************************************)
(* Properties of the peak selection and of the merge.  After the peak loop *)
(* (pc = "filter") edges holds the local-maximum candidates; after the     *)
(* distance filter (pc = "combine") it holds the accepted indices.         *)
(***************************************************************************)
\* d >= minDistance, minDistance = max(50, limit / 15).
AtLeastMinDistance(d) == d >= 50 /\ 15 * d >= limit
\* The candidates of the peak loop, recomputed from the smoothed scores.
PeakCandidates ==
    IF Len(nonZeroScores(smoothedScores, limit)) = 0 THEN <<>>
    ELSE peakScan(smoothedScores, scoreStats(nonZeroScores(smoothedScores, limit)), limit)

\* C14: every pair of adjacent indices of the edge list left by the peak
\* selection (after the greedy elimination and the re-sort) differs by at
\* least minDistance = max(50, limit / 15).
C14_AcceptedEdgesSpaced ==
    pc = "combine" =>
        \A k \in 1..(Len(edges) - 1) : AtLeastMinDistance(edges[k + 1] - edges[k])
\* Two indices were accepted on an axis long enough for limit / 15 to
\* exceed 50, and candidates closer than that were eliminated.
C14_Witness ==
    /\ pc = "combine"
    /\ limit > 15 * 50
    /\ Len(edges) >= 2
    /\ Len(PeakCandidates) > Len(edges)

\* C15: the greedy elimination accepts a candidate of the highest smoothed
\* score (the candidate of the highest score, when there is one), accepts
\* candidates only, and every discarded candidate lies within minDistance
\* of an accepted candidate whose score is at least as high as its own.
C15_StrongestSurvives ==
    [][pc = "filter" =>
         LET candidates == Range(edges)
             accepted == Range(edges')
         IN  /\ accepted \subseteq candidates
             /\ candidates # {} =>
                  \E a \in accepted :
                     \A c \in candidates : smoothedScores[c] <= smoothedScores[a]
             /\ \A c \in candidates :
                  (\A d \in candidates \ {c} : smoothedScores[d] < smoothedScores[c])
                     => c \in accepted
             /\ \A c \in candidates \ accepted :
                  \E a \in accepted :
                     /\ ~AtLeastMinDistance(Abs(a - c))
                     /\ smoothedScores[a] >= smoothedScores[c]]_vars
\* The filter has discarded a weaker candidate that came first in position
\* order, more than the local window away from the accepted one.
C15_Witness ==
    /\ pc = "combine"
    /\ \E c \in Range(PeakCandidates) \ Range(edges) :
          \E a \in Range(edges) :
             /\ c < a - localCheck
             /\ smoothedScores[c] < smoothedScores[a]

\* The values of a list of candidates that pass the border-margin test of
\* an axis of lim lines.
PassMargin(cands, lim) == { v \in Range(cands) : 50 * v > lim /\ 50 * v < 49 * lim }
\* The merge of the gap candidates gs and edge candidates es into splits.
MergedFrom(splits, gs, es, lim) ==
    /\ PassMargin(gs, lim) \subseteq Range(splits)
    /\ \A e \in Range(es) :
          (e \in Range(splits) /\ e \notin Range(gs)) =>
              \A g \in PassMargin(gs, lim) : Abs(g - e) >= 20

\* C16: per axis, every gap candidate that passes the border-margin test
\* is in the final list, and an edge candidate is added only if no accepted
\* gap candidate lies within 20 pixels of it.
C16_GapsFirstEdgesIfFar ==
    /\ RowsReturned => MergedFrom(rowSplits, gaps, edges, height)
    /\ Resolved => MergedFrom(colSplits, gaps, edges, width)
\* An edge candidate inside the margins was left out, within 20 pixels of
\* an accepted gap candidate.
C16_Witness ==
    /\ Resolved
    /\ \E e \in PassMargin(edges, width) \ Range(colSplits) :
          \E g \in PassMargin(gaps, width) : Abs(g - e) < 20 /\ g \in Range(colSplits)

\* C19: an index is a peak candidate only if no other index of
\* i - 10 .. i + 10 (clipped to the profile) has a strictly higher smoothed
\* score.
C19_LocalMaximumRadius10 ==
    pc = "filter" =>
        \A k \in 1..Len(edges) :
            \A j \in Max(0, edges[k] - 10)..Min(limit - 1, edges[k] + 10) :
                smoothedScores[j] <= smoothedScores[edges[k]]

\* The buffer read back with every alpha byte a replaced by 255 - a: the
\* same R, G and B bytes, a different alpha in every pixel.
InvertedCopy ==
    [b \in DOMAIN imageData |-> IF b % 4 = 3 THEN 255 - imageData[b] ELSE imageData[b]]
\* The profiles built from buffer d are the profiles of the run.
SameProfiles(d) ==
    /\ pc = "gaps" =>
          \A i \in 0..(limit - 1) :
              variances[i] = lineVariance(d, width, isHorizontal, crossLimit, i)
    /\ pc = "smooth" =>
          \A i \in 1..(limit - 1) :
              scores[i] = diffSum(d, width, isHorizontal, crossLimit, i)
\* The split lists returned for buffer d are the lists of the run.
SameSplits(d) ==
    Resolved =>
        /\ detectAxis(d, width, height, TRUE) = rowSplits
        /\ detectAxis(d, width, height, FALSE) = colSplits

\* C18: the detector never reads the alpha channel: a buffer of the same
\* size that agrees on every R, G and B byte and differs in alpha bytes
\* only gives the same profiles and the same split lists on both axes, and
\* each profile has one entry per line of the axis.
C18_AlphaNeverRead ==
    /\ SameProfiles(InvertedCopy)
    /\ SameSplits(InvertedCopy)
    /\ pc = "gaps" => DOMAIN variances = 0..(limit - 1)
    /\ pc = "smooth" => DOMAIN scores = 0..(limit - 1)
    /\ pc = "peaks" => DOMAIN smoothedScores = 0..(limit - 1)
\* A run has resolved with splits of both channels on a picture whose
\* alpha bytes vary from pixel to pixel.
C18_Witness ==
    /\ Resolved
    /\ Range(colSplits) \cap Range(gaps) # {}
    /\ Range(colSplits) \ Range(gaps) # {}
    /\ imageData[3] # imageData[7]

\* The cross-axis positions sampled at stride 2, and channel k of the
\* pixel at position j of line i of the current axis.
SampledPositions == { j \in 0..(crossLimit - 1) : j % 2 = 0 }
ChannelAt(i, j, k) ==
    imageData[4 * (IF isHorizontal THEN i * width + j ELSE j * width + i) + k]
\* The sum of |R_i - R_{i-1}| + |G_i - G_{i-1}| + |B_i - B_{i-1}| over the
\* sampled positions of line i.
GradientSum(i) ==
    SumFn([j \in 0..(crossLimit - 1) |->
              IF j \in SampledPositions
              THEN Abs(ChannelAt(i, j, 0) - ChannelAt(i - 1, j, 0))
                     + Abs(ChannelAt(i, j, 1) - ChannelAt(i - 1, j, 1))
                     + Abs(ChannelAt(i, j, 2) - ChannelAt(i - 1, j, 2))
              ELSE 0],
          0, crossLimit - 1)

\* C20: for every line i > 0 the gradient profile value is the sum of the
\* absolute channel differences over the positions sampled at stride 2,
\* divided by the number of positions sampled, whatever the cross-axis
\* length.
C20_GradientNormalisedBySamples ==
    pc = "smooth" =>
        \A i \in 1..(limit - 1) :
            LET v == scoreOf(scores[i], crossLimit)
            IN  v.num * Cardinality(SampledPositions) = v.den * GradientSum(i)

\* The arguments of a call of filterLargestComponent are invalid: a
\* dimension is <= 0 or the array has not width * height elements.
InvalidMaskArgs ==
    \/ width <= 0
    \/ height <= 0
    \/ DOMAIN maskData # 0..(width * height - 1)

\* C17: invalid dimensions or a buffer of the wrong length are detected
\* before any indexed access and reported to the caller as an error: a
\* call with invalid arguments gets no further than its entry unless it is
\* rejected, and returns no result.
C17_InvalidArgumentsRejected ==
    InvalidMaskArgs => (pc = "rejected" \/ (pc = "scan" /\ scan = 0))

\* The arrays of the running detectAxis call are filled.
Smoothed == pc \in {"peaks", "filter", "combine"}

\* C21: the smoothed profile is the centred moving average over
\* i - smoothWindow .. i + smoothWindow for the lines in
\* [smoothWindow, limit - smoothWindow), and equals the raw gradient score
\* at every other line.  (smoothedScores holds (2 * smoothWindow + 1) times
\* the average in the units of scores.)
C21_SmoothingLeavesEdgesRaw ==
    Smoothed =>
        \A i \in 0..(limit - 1) :
            IF i >= smoothWindow /\ i < limit - smoothWindow
            THEN smoothedScores[i] = SumFn(scores, i - smoothWindow, i + smoothWindow)
            ELSE smoothedScores[i] = (2 * smoothWindow + 1) * scores[i]

\* C22: index 0 of the gradient profile stays 0, and 0 is never an edge
\* candidate nor a split, on both axes.
C22_IndexZeroNeverUsed ==
    /\ 0 \in DOMAIN scores => scores[0] = 0
    /\ 0 \notin Range(edges)
    /\ 0 \notin Range(rowSplits)
    /\ 0 \notin Range(colSplits)

\* Line 1 differs from line 0 and the call found edges and splits.
C22_Witness ==
    /\ pc = "resolved"
    /\ 1 \in DOMAIN scores
    /\ scores[1] > 0
    /\ edges # <<>>
    /\ colSplits # <<>>

\* The maximal runs of lines of low variance, as pairs <<first, last>>.
LowLines == { i \in 0..(limit - 1) : isLowVariance(variances[i]) }
LowRuns ==
    LET low == LowLines
        firsts == { i \in low : i - 1 \notin low }
        lasts == { i \in low : i + 1 \notin low }
    IN  { <<f, CHOOSE l \in lasts : l >= f /\ \A m \in lasts : m >= f => l <= m>> :
            f \in firsts }
\* The least run length that counts as a gap (gapEnd - gapStart >= 2).
MinGapWidth == minGapSpan + 1
WideRuns == { r \in LowRuns : r[2] - r[1] + 1 >= MinGapWidth }

\* C23: each maximal run of low-variance lines of at least the minimum
\* width contributes exactly one candidate, floor((start + end) / 2), inside
\* the run; shorter runs contribute none; a run that ends at the last line
\* counts like any other.
C23_GapRunsGiveMidpoints ==
    pc \in {"scores", "smooth", "peaks", "filter", "combine"} =>
        /\ Len(gaps) = Cardinality(WideRuns)
        /\ StrictlyIncreasing(gaps)
        /\ Range(gaps) = { (r[1] + r[2]) \div 2 : r \in WideRuns }
        /\ \A r \in WideRuns :
              Cardinality({ k \in 1..Len(gaps) : r[1] <= gaps[k] /\ gaps[k] <= r[2] }) = 1
        /\ \A r \in LowRuns \ WideRuns : \A k \in 1..Len(gaps) : gaps[k] \notin r[1]..r[2]

\* A picture with a wide run inside the axis, a wide run that reaches the
\* last line, and a run too short to count.
C23_Witness ==
    /\ pc = "scores"
    /\ \E r \in WideRuns : r[2] = limit - 1
    /\ \E r \in WideRuns : r[2] < limit - 1
    /\ \E r \in LowRuns : r \notin WideRuns

\* The lines of a smoothed profile with a strictly positive score, and
\* their scores in a common unit u: the count n, the sum t and the sum of
\* squares q.
PositiveLines(sm) == { i \in DOMAIN sm : sm[i] > 0 }
ProfileUnit(sm) == GcdFn(sm, 0, Cardinality(DOMAIN sm) - 1)
PositiveStats(sm) ==
    LET u == ProfileUnit(sm)
        last == Cardinality(DOMAIN sm) - 1
        val == [i \in DOMAIN sm |-> IF sm[i] > 0 THEN sm[i] \div u ELSE 0]
    IN  [u |-> u, n |-> Cardinality(PositiveLines(sm)), t |-> SumFn(val, 0, last),
         q |-> SumFn([i \in DOMAIN sm |-> val[i] * val[i]], 0, last)]
\* sm[i] > mean + (k2 / 2) * stddev, mean = t / n, stddev^2 = q / n - mean^2.
ExceedsThreshold(sm, i, k2) ==
    LET ps == PositiveStats(sm)
        above == ps.n * (sm[i] \div ps.u) - ps.t
    IN  /\ above > 0
        /\ 4 * above * above > k2 * k2 * (ps.n * ps.q - ps.t * ps.t)
\* edges and smoothedScores belong to the same detectAxis call.
PeaksTaken == smoothedScores # <<>> /\ pc \notin {"peaks", "edge:peaks"}
InEdgeOnly == pc \in {"edge:load", "edge:scores", "edge:smooth", "edge:peaks",
                      "edge:resolved", "edge:rejected"}

\* C24: an index is an edge candidate only if its smoothed score is strictly
\* greater than mean + k * stddev, both taken over the strictly positive
\* smoothed scores only, with k = 3.5 in the combined detector and 2.5 in
\* the edge-only detector; with no strictly positive score there is no
\* candidate.
C24_CandidatesAboveThreshold ==
    PeaksTaken =>
        IF PositiveLines(smoothedScores) = {}
        THEN edges = <<>>
        ELSE \A e \in Range(edges) :
                ExceedsThreshold(smoothedScores, e, IF InEdgeOnly THEN 5 ELSE 7)

\* A call that found a candidate and passed over a line whose score is
\* above the mean.
C24_Witness ==
    /\ pc = "resolved"
    /\ edges # <<>>
    /\ \E i \in PositiveLines(smoothedScores) :
          /\ ~ExceedsThreshold(smoothedScores, i, 7)
          /\ ExceedsThreshold(smoothedScores, i, 0)

\* All strictly positive smoothed scores are equal (standard deviation 0).
AllPositiveEqual ==
    /\ PositiveLines(smoothedScores) # {}
    /\ \A i, j \in PositiveLines(smoothedScores) : smoothedScores[i] = smoothedScores[j]

\* C29: when all strictly positive smoothed scores of the combined detector
\* are equal, the edge channel selects no candidate.
C29_EqualScoresNoCandidate ==
    (pc \in {"filter", "combine"} /\ AllPositiveEqual) => edges = <<>>

\* Two boundaries of the same strength more than 5 lines apart: two runs of
\* equal smoothed score, and no candidate.
C29_Witness ==
    /\ pc = "filter"
    /\ AllPositiveEqual
    /\ \E i, j \in PositiveLines(smoothedScores) : j - i > 2 * smoothWindow + 5
    /\ edges = <<>>

\* One iteration of the loop of floodFill: the coordinate on top of the
\* stack is popped.  An already visited coordinate is only popped, nothing
\* is tested, written or pushed; a new coordinate is marked visited, and
\* whatever is pushed in its place lies inside the canvas.
TestedOnce ==
    (pc = "loop" /\ stack # <<>> /\ pc' = "loop") =>
        /\ Top \in visited =>
              stack' = Popped /\ visited' = visited /\ data' = data
        /\ Top \notin visited =>
              /\ visited' = visited \cup {Top}
              /\ SubSeq(stack', 1, Len(stack) - 1) = Popped
              /\ \A k \in Len(stack)..Len(stack') : stack'[k] \in Pixels

\* C25: floodFill terminates on every buffer: each coordinate is tested at
\* most once, under the guard of the visited set; neighbours are pushed only
\* at the first visit of a pixel and only inside the canvas; and the stack
\* empties, so that every call that entered the loop returns.
C25_FloodFillTerminates ==
    /\ [][TestedOnce]_vars
    /\ [](\A k \in 1..Len(stack) : stack[k] \in Pixels)
    /\ (pc = "loop") ~> (pc = "loop" /\ stack = <<>>)
    /\ (pc = "loop") ~> (pc = "idle")

\* A call whose loop has ended after it visited every pixel of a canvas of
\* MaxCells pixels, erased some and left some.
C25_Witness ==
    /\ LoopEnded
    /\ Cardinality(visited) >= 4
    /\ Cardinality(Erased) >= 2
    /\ visited \ Erased # {}

\* The raster scan of filterLargestComponent has finished.
ScanFinished == (pc = "scan" /\ scan >= width * height) \/ pc = "done"
Labelled(l) == { i \in Cells : labels[i] = l }

\* C26: when the scan finishes, every pixel with mask value > 0 carries a
\* label >= 1 and every other pixel label 0; two foreground pixels carry the
\* same label exactly when a 4-connected path of foreground pixels joins
\* them (the pixels of each label are one whole component); the labels are 1, 2, 3, ... in the raster order of the first pixel
\* of each component; and the size recorded for a label is the number of
\* pixels that carry it.
C26_LabelsAreComponents ==
    ScanFinished =>
        /\ \A i \in Cells : IF maskData[i] > 0 THEN labels[i] >= 1 ELSE labels[i] = 0
        /\ { labels[i] : i \in Foreground } = 1..(currentLabel - 1)
        /\ \A l \in 1..(currentLabel - 1) :
              Labelled(l) = Component(FirstPixel(Labelled(l)))
        /\ \A a, b \in 1..(currentLabel - 1) :
              a < b => FirstPixel(Labelled(a)) < FirstPixel(Labelled(b))
        /\ DOMAIN componentSizes = 1..(currentLabel - 1)
        /\ \A l \in 1..(currentLabel - 1) : componentSizes[l] = Cardinality(Labelled(l))

\* A mask of several components, one of them with pixels side by side and
\* pixels one above the other.
C26_Witness ==
    /\ pc = "done"
    /\ currentLabel >= 3
    /\ width >= 2
    /\ \E i \in Foreground :
          /\ i % width < width - 1
          /\ i + 1 \in Foreground
          /\ i + width \in Foreground

\* The history and position an operation leaves, as described: a new edit
\* keeps the entries up to the current one, appends the image and makes it
\* current; undo and redo move the position by one or not at all.
AfterCall(h, c) ==
    CASE c.op \in {"push", "bg:resolved"} ->
            LET kept == Append(SubSeq(h.history, 1, h.currentStep + 1), c.src)
            IN  [history |-> kept, currentStep |-> Len(kept) - 1]
      [] c.op = "undo" ->
            [h EXCEPT !.currentStep = IF @ > 0 THEN @ - 1 ELSE @]
      [] c.op = "redo" ->
            [h EXCEPT !.currentStep = IF @ < Len(h.history) - 1 THEN @ + 1 ELSE @]
      [] c.op = "reset" -> [history |-> <<c.src>>, currentStep |-> 0]
      [] OTHER -> h
RECURSIVE AfterCalls(_, _, _)
AfterCalls(h, cs, k) ==
    IF k > Len(cs) THEN h ELSE AfterCalls(AfterCall(h, cs[k]), cs, k + 1)
RenderStep == batch # <<>> /\ batch' = <<>>
HistoryNow == [history |-> history, currentStep |-> currentStep]

\* C27: a new edit discards every entry after the current position, appends
\* the new image as the last entry and makes it current; undo moves the
\* position back by one and does nothing at position 0; redo moves it
\* forward by one and does nothing at the last entry; undo and redo leave
\* the history array as it is.  Stated of the calls a render applies, one
\* after the other from the state before them.
C27_HistoryOperations ==
    [][RenderStep =>
          [history |-> history', currentStep |-> currentStep']
              = AfterCalls(HistoryNow, batch, 1)]_vars

\* The same, of a single call made with what the last render shows: no other
\* call before the next render, and for the push that follows a background
\* removal no change of history or position while the removal ran.
FreshCall ==
    /\ Len(batch) = 1
    /\ currentStep + 1 \in DOMAIN history
    /\ batch[1].op = "bg:resolved" =>
          \E k \in DOMAIN inflight :
              /\ inflight[k].stage = "returned after push"
              /\ updates[1].arg = Append(SubSeq(history, 1, currentStep + 1), batch[1].src)
FreshCallsAsDescribed ==
    [][(RenderStep /\ FreshCall) =>
          [history |-> history', currentStep |-> currentStep']
              = AfterCalls(HistoryNow, batch, 1)]_vars

\* C28: in useImageHistory, after any sequence of calls, two pushToHistory
\* calls before a re-render included, 0 <= currentStep < history.length, so
\* that currentSrc is an entry of history.
C28_StepInsideHistory ==
    pc = "hook" => (0 <= currentStep /\ currentStep < Len(history))

\* The position of ImageEditor, whose pushToHistory sets values, stays inside
\* its history.
EditorStepInsideHistory ==
    pc = "editor" => (0 <= currentStep /\ currentStep < Len(history))

\* The render that applies what one handleAutoRemoveBg step has set.
RendersCall(op) == RenderStep /\ Len(batch) = 1 /\ batch[1].op = op
Returned(k) ==
    k \in DOMAIN inflight
        /\ inflight[k].stage \in {"returned after push", "returned after catch"}

\* C30: handleAutoRemoveBg, started with a current image, sets the loading
\* flag, and the flag is always eventually false again and loadingText null,
\* whether the removal resolves or rejects: every started call returns.  The
\* call itself leaves history, position and mode alone; when the removal
\* resolves the new image becomes the last and current entry and the mode is
\* cleared; when it rejects history, position and mode stay as they are.
C30_LoadingAlwaysReset ==
    /\ (isLoading = TRUE) ~> (isLoading = FALSE /\ loadingText = NoText)
    /\ \A k \in 1..MaxOps : (k \in DOMAIN inflight) ~> Returned(k)
    /\ [][RendersCall("autoRemoveBg") =>
             /\ isLoading' = TRUE /\ loadingText' = LoadingRemoving
             /\ history' = history /\ currentStep' = currentStep /\ mode' = mode]_vars
    /\ [][RendersCall("bg:resolved") =>
             /\ isLoading' = FALSE /\ loadingText' = NoText
             /\ history'[Len(history')] = batch[1].src
             /\ currentStep' = Len(history') - 1
             /\ mode' = NoMode]_vars
    /\ [][RendersCall("bg:rejected") =>
             /\ isLoading' = FALSE /\ loadingText' = NoText
             /\ history' = history /\ currentStep' = currentStep /\ mode' = mode]_vars
\* Two calls were started in BACKGROUND mode; one was rejected and left the
\* mode and the history of its time, the other has not returned yet and the
\* flag is already false.
C30_Witness ==
    /\ pc = "editor" /\ Rendered
    /\ Len(inflight) = 2
    /\ inflight[1].stage = "returned after catch"
    /\ inflight[2].stage = "fulfilled"
    /\ mode = "BACKGROUND"
    /\ isLoading = FALSE /\ loadingText = NoText
    /\ history = inflight[1].history

====
